---- MODULE Spec2Model ----
(***************************************************************************)
(* The ETL change-detection and versioning pipeline of scripts/etl/etl.js: *)
(* extract all tasks from the store, transform them, fingerprint the       *)
(* transformed tasks, and write latest.json, dataset-<version>.json and    *)
(* latest.hash only when the fingerprint differs from the stored marker,   *)
(* then prune old backups.  The store, the clock and the failures of the   *)
(* store and of the filesystem are the environment.  One process of the    *)
(* script runs at a time in Spec and SpecRetention, two in SpecConcurrent; *)
(* SpecTransform applies transformTasks and the fingerprint to every kind  *)
(* of document; SpecTrigger is the router of the API server that triggers  *)
(* the pipeline (adminAuth, POST /trigger-etl, GET /status), SpecApp the    *)
(* application with its health check.  SpecTied, SpecSetBack and SpecLog   *)
(* run the script over a store with tied documents, after the local clock  *)
(* was set back, and with the appends to the log file.  SpecFrontend is    *)
(* the React frontend: App, TaskList and TaskItem.                         *)
(***************************************************************************)
EXTENDS Integers, Sequences, FiniteSets, TLC

(***************************************************************************)
(* Bounds of the model.                                                    *)
(***************************************************************************)
\* the store holds at most MaxTasks task documents
MaxTasks == 2
\* at most MaxEvents events are followed: modifications of the store,
\* minutes that pass and runs of the script
MaxEvents == 4
\* the output directory was left by at most MaxEarlier earlier runs
MaxEarlier == 5

\* the invocations of onDelete that are followed
MaxDeleteCalls == 2

(***************************************************************************)
(* Program constants.                                                      *)
(***************************************************************************)
\* CONFIG.output.maxBackups (ETL_BACKUP_COUNT unset)
maxBackups == 5
\* String(n).padStart(2, '0') in generateVersion
PadWidth == 2
\* minutes in an hour: getHours() and getMinutes() of one instant
MinutesPerHour == 60

(***************************************************************************)
(* Optional values: a field that is undefined or null in JavaScript is     *)
(* None, a field holding v is Some(v).                                     *)
(***************************************************************************)
None == <<>>
Some(v) == <<v>>
IsSome(o) == o # <<>>
Val(o) == o[1]

\* the elements of an array
Range(seq) == {seq[i] : i \in DOMAIN seq}

(***************************************************************************)
(* Strings that the code trims are sequences of characters.                *)
(***************************************************************************)
RECURSIVE TrimStart(_)
TrimStart(s) == IF s # <<>> /\ Head(s) = " " THEN TrimStart(Tail(s)) ELSE s

RECURSIVE TrimEnd(_)
TrimEnd(s) ==
  IF s # <<>> /\ s[Len(s)] = " " THEN TrimEnd(SubSeq(s, 1, Len(s) - 1)) ELSE s

\* String.prototype.trim
Trim(s) == TrimEnd(TrimStart(s))

\* new Date(d).toISOString(): the instant d written as an ISO-8601 string
ToISOString(d) == [iso |-> d]

\* JavaScript truthiness of task.description: undefined, null and '' are falsy
TruthyText(o) == IsSome(o) /\ Val(o) # <<>>

\* JavaScript truthiness of task.priority: undefined, null and '' are falsy
TruthyWord(o) == IsSome(o) /\ Val(o) # ""

\* Boolean(task.completed)
ToBoolean(o) == IsSome(o) /\ Val(o) = TRUE

(***************************************************************************)
(* The documents of the store (taskSchema), as Task.find().lean() returns  *)
(* them: plain objects whose fields may be missing.                        *)
(***************************************************************************)
TaskIds == 1..MaxTasks
Titles == {Some(<<"a">>), Some(<<" ", "a">>), None}
Descriptions == {None}
Completeds == {Some(FALSE), Some(TRUE)}
Priorities == {Some("High")}
DueDates == {None}

\* the fields of a document the application rewrites
EditedFields == {"title", "completed"}

FieldValues(f) ==
  CASE f = "title" -> Titles
    [] f = "completed" -> Completeds

TaskDoc(i, ti, de, co, pr, du, cr, up) ==
  [id |-> i, title |-> ti, description |-> de, completed |-> co,
   priority |-> pr, dueDate |-> du, createdAt |-> cr, updatedAt |-> up]

\* the documents that may be created at instant t: createdAt and updatedAt
\* default to Date.now
NewDocs(i, t) ==
  {TaskDoc(i, ti, de, co, pr, du, Some(t), Some(t)) :
     ti \in Titles, de \in Descriptions, co \in Completeds, pr \in Priorities,
     du \in DueDates}

(***************************************************************************)
(* Pure functions of etl.js.                                               *)
(***************************************************************************)
\* the callback of rawTasks.map in transformTasks
TransformTask(task) ==
  [id |-> task.id,
   title |-> Trim(Val(task.title)),
   description |->
     IF TruthyText(task.description) THEN Some(Trim(Val(task.description)))
     ELSE None,
   completed |-> ToBoolean(task.completed),
   priority |-> IF TruthyWord(task.priority) THEN Val(task.priority) ELSE "Medium",
   dueDate |->
     IF IsSome(task.dueDate) THEN Some(ToISOString(Val(task.dueDate))) ELSE None,
   createdAt |-> ToISOString(Val(task.createdAt)),
   updatedAt |-> ToISOString(Val(task.updatedAt))]

\* the map callback throws: task.title.trim() on a missing title is a
\* TypeError, new Date(undefined).toISOString() is a RangeError
TransformThrows(task) ==
  \/ ~IsSome(task.title)
  \/ ~IsSome(task.createdAt)
  \/ ~IsSome(task.updatedAt)

\* Array.prototype.filter(...).length
CountIf(seq, P(_)) == Cardinality({i \in 1..Len(seq) : P(seq[i])})

\* mutant: overdue counts the completed tasks too
StatisticsOverdueAnyStatus(tasks, t) ==
  [total |-> Len(tasks),
   completed |-> CountIf(tasks, LAMBDA x : x.completed),
   pending |-> CountIf(tasks, LAMBDA x : ~x.completed),
   byPriority |->
     [high |-> CountIf(tasks, LAMBDA x : x.priority = "High"),
      medium |-> CountIf(tasks, LAMBDA x : x.priority = "Medium"),
      low |-> CountIf(tasks, LAMBDA x : x.priority = "Low")],
   overdue |->
     CountIf(tasks, LAMBDA x : IsSome(x.dueDate) /\ Val(x.dueDate).iso < t)]

\* the stats object of transformTasks, evaluated at instant t
Statistics(tasks, t) ==
  [total |-> Len(tasks),
   completed |-> CountIf(tasks, LAMBDA x : x.completed),
   pending |-> CountIf(tasks, LAMBDA x : ~x.completed),
   byPriority |->
     [high |-> CountIf(tasks, LAMBDA x : x.priority = "High"),
      medium |-> CountIf(tasks, LAMBDA x : x.priority = "Medium"),
      low |-> CountIf(tasks, LAMBDA x : x.priority = "Low")],
   overdue |->
     CountIf(tasks,
             LAMBDA x : IsSome(x.dueDate) /\ Val(x.dueDate).iso < t
                          /\ ~x.completed)]

\* digits of n, padded with zeros to w characters: String(n).padStart(w, '0')
RECURSIVE PadStart(_, _)
PadStart(n, w) ==
  IF w = 0 THEN <<>> ELSE Append(PadStart(n \div 10, w - 1), n % 10)

\* generateVersion at instant t: the token vYYYY.MM.DD.HHmm; the date part
\* is the same for every instant of the model, the hour and the minute are
\* each padded to two digits
generateVersion(t) ==
  PadStart(t \div MinutesPerHour, PadWidth) \o PadStart(t % MinutesPerHour, PadWidth)

\* mutant: every task carries the instant of the extraction
transformTasksStamped(raw, t) ==
  LET transformedTasks ==
        [i \in 1..Len(raw) |->
           [TransformTask(raw[i]) EXCEPT !.updatedAt = ToISOString(t)]]
  IN [metadata |->
        [extractedAt |-> ToISOString(t),
         version |-> generateVersion(t),
         count |-> Len(transformedTasks),
         statistics |-> Statistics(transformedTasks, t),
         source |-> "mongodb-todo-collection",
         pipeline |-> "github-actions-etl",
         dataHash |-> None,
         changed |-> None],
      tasks |-> transformedTasks]

\* mutant: count is taken from the pending tasks
transformTasksCountPending(raw, t) ==
  LET transformedTasks == [i \in 1..Len(raw) |-> TransformTask(raw[i])]
  IN [metadata |->
        [extractedAt |-> ToISOString(t),
         version |-> generateVersion(t),
         count |-> Statistics(transformedTasks, t).pending,
         statistics |-> Statistics(transformedTasks, t),
         source |-> "mongodb-todo-collection",
         pipeline |-> "github-actions-etl",
         dataHash |-> None,
         changed |-> None],
      tasks |-> transformedTasks]

\* transformTasks at instant t, when no record makes the map callback throw
transformTasks(raw, t) ==
  LET transformedTasks == [i \in 1..Len(raw) |-> TransformTask(raw[i])]
  IN [metadata |->
        [extractedAt |-> ToISOString(t),
         version |-> generateVersion(t),
         count |-> Len(transformedTasks),
         statistics |-> Statistics(transformedTasks, t),
         source |-> "mongodb-todo-collection",
         pipeline |-> "github-actions-etl",
         dataHash |-> None,
         changed |-> None],
      tasks |-> transformedTasks]

\* mutant: the digest covers the ids of the tasks only
generateDataHashOfIds(data) == [sha256 |-> [i \in DOMAIN data |-> data[i].id]]

\* generateDataHash: SHA-256 of JSON.stringify(data); both are taken to be
\* injective, so the digest stands for the serialized value itself
generateDataHash(data) == [sha256 |-> data]

\* Array.prototype.sort of file names: lexicographic order of two tokens
RECURSIVE LexLess(_, _)
LexLess(a, b) ==
  IF b = <<>> THEN FALSE
  ELSE IF a = <<>> THEN TRUE
  ELSE IF Head(a) # Head(b) THEN Head(a) < Head(b)
  ELSE LexLess(Tail(a), Tail(b))

\* files.filter(...).sort().reverse() over the versions on disk
RECURSIVE SortedDescending(_)
SortedDescending(S) ==
  IF S = {} THEN <<>>
  ELSE LET m == CHOOSE x \in S : \A y \in S \ {x} : LexLess(y, x)
       IN <<m>> \o SortedDescending(S \ {m})

\* mutant: the slice starts one file too late
SliceFromNext(seq, k) ==
  IF Len(seq) > k + 1 THEN SubSeq(seq, k + 2, Len(seq)) ELSE <<>>

\* datasetFiles.slice(k) when datasetFiles.length > k, else nothing
SliceFrom(seq, k) == IF Len(seq) > k THEN SubSeq(seq, k + 1, Len(seq)) ELSE <<>>

\* sort key of Task.find({}).sort({ createdAt: -1 }): a missing createdAt
\* sorts as null, below every date
SortKey(task) == IF IsSome(task.createdAt) THEN Val(task.createdAt) ELSE 0

\* the answers the store may give to the query of extractTasks: every
\* arrangement of the documents with createdAt descending; documents with
\* equal createdAt come in an order the store does not fix
QueryAnswers(docs) ==
  {s \in [1..Cardinality(docs) -> docs] :
     /\ \A i, j \in DOMAIN s : i # j => s[i] # s[j]
     /\ \A i, j \in DOMAIN s : i < j => SortKey(s[i]) >= SortKey(s[j])}

VARIABLES
  store,         \* the task collection: a set of documents with distinct ids
  now,           \* the clock, in minutes
  edits,         \* number of modifications of the store so far
  runs,          \* number of runs of the script started so far
  latestJson,    \* output/latest.json: None or Some(dataset)
  latestHash,    \* output/latest.hash: None or Some(hash)
  backups,       \* output/dataset-<version>.json: version -> dataset
  pc,            \* where the process is in runETL and the EXECUTION block
  conn,          \* mongoose connection: "closed" or "open"
  closeCalls,    \* calls of mongoose.connection.close() by this process
  rawTasks,      \* runETL's rawTasks
  dataset,       \* runETL's dataset: None or Some(dataset)
  currentHash,   \* loadDataset's currentHash: None or Some(hash)
  previousHash,  \* loadDataset's previousHash: None or Some(marker read)
  filesToDelete, \* cleanupOldBackups' filesToDelete, those still to unlink
  result,        \* what loadDataset returned: None or Some(result)
  error,         \* the error a stage threw: None or Some(error)
  settled,       \* runETL's promise: "pending", "resolved" or "rejected"
  exitCode,      \* status given to process.exit: None or Some(code)
  touched,       \* history: files of output/ this run wrote or unlinked
  fault,         \* history: the failure the environment injected, if any
  cleanupFailed, \* history: cleanupOldBackups caught an error in this run
  preCleanup,    \* history: versions on disk when cleanupOldBackups listed
  diskAtStart,   \* history: the output directory when the run started
  editsAtExtract,\* history: value of edits when this run queried the store
  prevRun,       \* history: the run before this one
  savedStreak,   \* history: consecutive runs that saved, up to StreakCap
  parked,        \* another process of the script, while this one runs:
                 \* None or Some(what that process holds in memory)
  env,           \* process.env of the API server
  apiPc,         \* where the API server is with the request
  req,           \* the request: None or Some(request)
  res,           \* the response sent: None or Some(response)
  dispatches,    \* calls of axios.post to the GitHub API for the request
  readyState,    \* mongoose.connection.readyState of the API server
  githubResponse,\* history: how axios.post settled for the request, if it did
  logFile,       \* the lines appended to the log file of the day
  tasksState,    \* App's state tasks, the array TaskList gets as its prop
  loading,       \* App's state loading
  filter,        \* TaskList's state filter
  sort,          \* TaskList's state sort
  searchTerm,    \* TaskList's state searchTerm
  showConfirmDelete, \* the state showConfirmDelete of each TaskItem
  onDeleteCalls, \* history: the ids onDelete was invoked with, in order
  deleting,      \* the ids whose taskService.deleteTask has not settled
  event          \* history: the last thing that happened in the browser

vars ==
  <<store, now, edits, runs, latestJson, latestHash, backups, pc, conn, closeCalls,
    rawTasks, dataset, currentHash, filesToDelete, result, error, settled,
    exitCode, touched, fault, cleanupFailed, preCleanup, diskAtStart,
    editsAtExtract, prevRun, savedStreak, previousHash, parked, env, apiPc,
    req, res, dispatches, readyState, githubResponse, logFile, tasksState, loading, filter,
    sort, searchTerm, showConfirmDelete, onDeleteCalls, deleting, event>>

envVars == <<store, now, edits, runs>>
diskVars == <<latestJson, latestHash, backups>>
loadVars ==
  <<currentHash, previousHash, filesToDelete, result, cleanupFailed, preCleanup>>
\* the API server
apiVars == <<env, apiPc, req, res, dispatches, readyState, githubResponse>>
\* the frontend
uiVars ==
  <<tasksState, loading, filter, sort, searchTerm, showConfirmDelete,
    onDeleteCalls, deleting, event>>
runHist == <<diskAtStart, editsAtExtract, prevRun, savedStreak>>

\* the three kinds of file of the output directory
Disk == [latestJson |-> latestJson, latestHash |-> latestHash, backups |-> backups]

\* errors the store driver and the filesystem raise
StoreErrors == {"ECONNREFUSED"}
FsErrors == {"ENOSPC"}

\* the longest streak of saving runs that is counted
StreakCap == maxBackups + 1

NoRun ==
  [settled |-> "none", failed |-> FALSE, saved |-> FALSE, rawTasks |-> <<>>,
   hash |-> None, edits |-> 0]

\* the dataset as loadDataset writes it: dataHash and changed are added
\* mutant: the loader also sets the count anew while it adds the hash
WithHashAndCount(ds, hash) ==
  [ds EXCEPT !.metadata.dataHash = Some(hash), !.metadata.changed = Some(TRUE),
             !.metadata.count = Len(ds.tasks) + 1]

\* dataset.metadata.dataHash = currentHash; dataset.metadata.changed = true
WithHash(ds, hash) ==
  [ds EXCEPT !.metadata.dataHash = Some(hash), !.metadata.changed = Some(TRUE)]

(***************************************************************************)
(* The API server's router of the ETL trigger: adminAuth in front of       *)
(* POST /trigger-etl and GET /status.                                      *)
(***************************************************************************)
\* values of the x-admin-token header; None when the request has none
HeaderValues == {None, Some(""), Some("secret"), Some("guess")}

\* process.env of the server: a variable that is not set is None
Envs ==
  [ADMIN_TOKEN : {None, Some(""), Some("secret")},
   GITHUB_TOKEN : {None, Some("ghp")},
   GITHUB_REPO : {None, Some("owner/repo")}]

\* the environment of a deployed server
DeployedEnv ==
  [ADMIN_TOKEN |-> Some("secret"), GITHUB_TOKEN |-> Some("ghp"),
   GITHUB_REPO |-> Some("owner/repo")]

Routes == {"POST /trigger-etl", "GET /status"}

\* what comes of axios.post: a response status, or the code of an error
\* without a response
GithubOutcomes == {"204", "200", "401", "404", "ECONNABORTED", "ENOTFOUND"}

\* res.status(status).json({ success, error })
Json(status, success, err) == [status |-> status, success |-> success, error |-> err]

\* mutant: adminAuth has no test for a missing header
TokenMissingNever(authToken) == FALSE

\* !authToken: the request has no x-admin-token header, or an empty one
TokenMissing(authToken) == ~TruthyWord(authToken)

\* authToken !== process.env.ADMIN_TOKEN
TokenInvalid(authToken, adminToken) == authToken # adminToken

(***************************************************************************)
(* The frontend: App, TaskList and TaskItem.                               *)
(***************************************************************************)
\* the tasks the browser gets to see
FrontIds == {"t1", "t2"}

\* what the server answers for a task; completed is what a toggle changes
FrontTask(id, completed) ==
  IF id = "t1"
  THEN [_id |-> "t1", title |-> <<"A">>, description |-> None,
        completed |-> completed, priority |-> "Low", dueDate |-> None,
        createdAt |-> 1]
  ELSE [_id |-> "t2", title |-> <<"b">>, description |-> Some(<<"b", "a">>),
        completed |-> completed, priority |-> "High", dueDate |-> Some(1),
        createdAt |-> 2]

\* what the user types into the search box
SearchTerms == {<<>>, <<" ">>, <<"A">>, <<"b">>}
FilterTypes == {"all", "active", "completed"}
SortTypes == {"newest", "oldest", "priority", "dueDate"}

\* String.prototype.toLowerCase
ToLowerCase(s) == [i \in DOMAIN s |-> IF s[i] = "A" THEN "a" ELSE s[i]]

\* String.prototype.includes
Includes(s, part) ==
  \E i \in 1..(Len(s) + 1) :
    /\ i + Len(part) - 1 <= Len(s)
    /\ SubSeq(s, i, i + Len(part) - 1) = part

\* Array.prototype.filter: the elements of seq at the positions in keep
RECURSIVE Filter(_, _)
Filter(seq, keep) ==
  IF seq = <<>> THEN <<>>
  ELSE LET front == Filter(SubSeq(seq, 1, Len(seq) - 1), keep)
       IN IF Len(seq) \in keep THEN Append(front, seq[Len(seq)]) ELSE front

\* the search filter of filteredAndSortedTasks
MatchesSearch(task, term) ==
  \/ Includes(ToLowerCase(task.title), ToLowerCase(term))
  \/ /\ TruthyText(task.description)
     /\ Includes(ToLowerCase(Val(task.description)), ToLowerCase(term))

\* the status filter of filteredAndSortedTasks
MatchesFilter(task, f) ==
  CASE f = "active" -> ~task.completed
    [] f = "completed" -> task.completed
    [] OTHER -> TRUE

priorityOrder(priority) ==
  CASE priority = "High" -> 3
    [] priority = "Medium" -> 2
    [] OTHER -> 1

\* the comparator handed to filtered.sort
Compare(s, a, b) ==
  CASE s = "oldest" -> a.createdAt - b.createdAt
    [] s = "priority" -> priorityOrder(b.priority) - priorityOrder(a.priority)
    [] s = "dueDate" ->
         IF ~IsSome(a.dueDate) /\ ~IsSome(b.dueDate) THEN 0
         ELSE IF ~IsSome(a.dueDate) THEN 1
         ELSE IF ~IsSome(b.dueDate) THEN -1
         ELSE Val(a.dueDate) - Val(b.dueDate)
    [] OTHER -> b.createdAt - a.createdAt

\* Array.prototype.sort, which is stable: x goes before the first element
\* that the comparator puts after it
InsertSorted(seq, x, s) ==
  LET later == {i \in DOMAIN seq : Compare(s, seq[i], x) > 0}
      at == IF later = {} THEN Len(seq) + 1
            ELSE CHOOSE i \in later : \A j \in later : i <= j
  IN SubSeq(seq, 1, at - 1) \o <<x>> \o SubSeq(seq, at, Len(seq))

RECURSIVE SortWith(_, _)
SortWith(seq, s) ==
  IF seq = <<>> THEN <<>>
  ELSE InsertSorted(SortWith(SubSeq(seq, 1, Len(seq) - 1), s), seq[Len(seq)], s)

\* whether a filter of filteredAndSortedTasks made a new array of the prop
Copied(f, term) == Trim(term) # <<>> \/ f \in {"active", "completed"}

\* filteredAndSortedTasks: the value of the memo
filteredAndSortedTasks(tasks, f, s, term) ==
  LET searched == IF Trim(term) # <<>>
                  THEN Filter(tasks, {i \in DOMAIN tasks : MatchesSearch(tasks[i], term)})
                  ELSE tasks
      filtered == Filter(searched, {i \in DOMAIN searched : MatchesFilter(searched[i], f)})
  IN SortWith(filtered, s)

\* the array of the prop once TaskList has rendered: filtered.sort sorts in
\* place, and filtered is the prop itself when no filter made a new array
Rendered(tasks, f, s, term) ==
  IF Copied(f, term) THEN tasks ELSE SortWith(tasks, s)

\* the ids of the tasks in an array
Ids(tasks) == {tasks[i]._id : i \in DOMAIN tasks}

\* the TaskItems on the page: none while the spinner shows
Mounted(tasks, ld, f, s, term) ==
  IF ld THEN {} ELSE Ids(filteredAndSortedTasks(tasks, f, s, term))

\* a TaskItem that leaves the page loses its state
KeepMounted(shown, mounted) ==
  [id \in FrontIds |-> shown[id] /\ id \in mounted]

\* what GET /api/tasks answers: the tasks of the server, newest first
ServerLists ==
  {<<>>} \cup {<<FrontTask(id, c)>> : id \in FrontIds, c \in BOOLEAN}
         \cup {<<FrontTask("t2", c2), FrontTask("t1", c1)>> : c1, c2 \in BOOLEAN}

\* App as the browser first renders it, the tasks being fetched
AppMounted ==
  /\ tasksState = <<>>
  /\ loading = TRUE
  /\ filter = "all"
  /\ sort = "newest"
  /\ searchTerm = <<>>
  /\ showConfirmDelete = [id \in FrontIds |-> FALSE]
  /\ onDeleteCalls = <<>>
  /\ deleting = {}
  /\ event = None

\* the server has started with environment e and has no request in hand
ServerStarted(e) ==
  /\ env = e
  /\ apiPc = "Listening"
  /\ req = None
  /\ res = None
  /\ dispatches = 0
  /\ readyState = 0
  /\ githubResponse = None

(***************************************************************************)
(* The output directory outlives the process.  The directory a run finds   *)
(* is the one k earlier runs left: one run a minute, the last one at       *)
(* StartMinute, each of them saving (the one document of the collection,   *)
(* created at minute 0, had its completed flag toggled between any two of  *)
(* them) and pruning without an error.  k = 0 is the first run ever.       *)
(***************************************************************************)
StartMinute == MaxEarlier

EarlierDoc ==
  TaskDoc(1, Some(<<"a">>), None, Some(FALSE), Some("High"), None, Some(0), Some(0))

EarlierRaw(m) == <<[EarlierDoc EXCEPT !.completed = Some(m % 2 = 1)]>>

EarlierDataset(m) ==
  LET ds == transformTasks(EarlierRaw(m), m)
  IN WithHash(ds, generateDataHash(ds.tasks))

\* the minutes of the earlier runs whose backups retention has kept
EarlierKept(k) ==
  {m \in (StartMinute - k + 1)..StartMinute : m > StartMinute - maxBackups}

EarlierBackups(k) ==
  [v \in {generateVersion(m) : m \in EarlierKept(k)} |->
     EarlierDataset(CHOOSE m \in EarlierKept(k) : generateVersion(m) = v)]

InitAfter(k) ==
  /\ store = IF k = 0 THEN {} ELSE {EarlierRaw(StartMinute)[1]}
  /\ now = StartMinute
  /\ edits = 0
  /\ runs = 0
  /\ latestJson = IF k = 0 THEN None ELSE Some(EarlierDataset(StartMinute))
  /\ latestHash =
       IF k = 0 THEN None
       ELSE Some(generateDataHash(EarlierDataset(StartMinute).tasks))
  /\ backups = EarlierBackups(k)
  /\ pc = "Idle"
  /\ conn = "closed"
  /\ closeCalls = 0
  /\ rawTasks = <<>>
  /\ dataset = None
  /\ currentHash = None
  /\ previousHash = None
  /\ logFile = {}
  /\ filesToDelete = <<>>
  /\ result = None
  /\ error = None
  /\ settled = "pending"
  /\ exitCode = IF k = 0 THEN None ELSE Some(0)
  /\ touched = {}
  /\ fault = None
  /\ cleanupFailed = FALSE
  /\ preCleanup = {}
  /\ diskAtStart = Disk
  /\ editsAtExtract = 0
  /\ prevRun =
       IF k = 0 THEN NoRun
       ELSE [settled |-> "resolved", failed |-> FALSE, saved |-> TRUE,
             rawTasks |-> EarlierRaw(StartMinute),
             hash |-> Some(generateDataHash(EarlierDataset(StartMinute).tasks)),
             edits |-> 0]
  /\ savedStreak = IF k < StreakCap THEN k ELSE StreakCap

\* the first run ever, with an empty output directory, or a directory that
\* MaxEarlier earlier runs left full
Init ==
  /\ InitAfter(0) \/ InitAfter(MaxEarlier)
  /\ parked = None
  /\ AppMounted
  /\ ServerStarted(DeployedEnv)

\* a directory that earlier runs left with maxBackups - 1 backups or more
InitRetention ==
  /\ \E k \in (maxBackups - 1)..MaxEarlier : InitAfter(k)
  /\ parked = None
  /\ AppMounted
  /\ ServerStarted(DeployedEnv)

(***************************************************************************)
(* The environment: the application changes the collection and time        *)
(* passes.  A run reads the collection once (extractTasks) and the clock   *)
(* once (transformTasks), so every interleaving of these steps with a run  *)
(* is one where they happen between two runs.                              *)
(***************************************************************************)
AtRest == pc = "Idle"

\* the events so far; StartMinute is the minute the model starts at
Events == edits + runs + (now - StartMinute)

runVars ==
  <<pc, conn, closeCalls, rawTasks, dataset, currentHash, previousHash,
    filesToDelete,
    result, error, settled, exitCode, touched, fault, cleanupFailed,
    preCleanup, diskAtStart, editsAtExtract, prevRun, savedStreak>>

\* a document is created
StoreInsert ==
  /\ AtRest
  /\ Events < MaxEvents
  /\ Cardinality(store) < MaxTasks
  /\ LET free == TaskIds \ {t.id : t \in store}
         i == CHOOSE x \in free : \A y \in free : x <= y
     IN \E d \in NewDocs(i, now) : store' = store \cup {d}
  /\ edits' = edits + 1
  /\ UNCHANGED <<parked, apiVars, uiVars, logFile, now, runs, diskVars, runVars>>

\* one field of one document is changed
StoreUpdate ==
  /\ AtRest
  /\ Events < MaxEvents
  /\ \E t \in store : \E f \in EditedFields : \E v \in FieldValues(f) \ {t[f]} :
       store' = (store \ {t}) \cup {[t EXCEPT ![f] = v]}
  /\ edits' = edits + 1
  /\ UNCHANGED <<parked, apiVars, uiVars, logFile, now, runs, diskVars, runVars>>

\* a document is deleted
StoreDelete ==
  /\ AtRest
  /\ Events < MaxEvents
  /\ \E t \in store : store' = store \ {t}
  /\ edits' = edits + 1
  /\ UNCHANGED <<parked, apiVars, uiVars, logFile, now, runs, diskVars, runVars>>

\* a minute passes
Tick ==
  /\ AtRest
  /\ Events < MaxEvents
  /\ now' = now + 1
  /\ UNCHANGED <<parked, apiVars, uiVars, logFile, store, edits, runs, diskVars, runVars>>

(***************************************************************************)
(* runETL, one step for each await.                                        *)
(***************************************************************************)
\* the call op rejects with cause; the stage throws
\* new Error(`${message}: ${cause}`) and runETL's catch block is entered
Throw(message, op, cause) ==
  /\ error' = Some([message |-> message, cause |-> cause])
  /\ fault' = Some([op |-> op, cause |-> cause])
  /\ pc' = "Failed"

\* the script is started: a new process, runETL is called
StartRun ==
  /\ AtRest
  /\ Events < MaxEvents
  /\ runs' = runs + 1
  /\ pc' = "Setup"
  /\ exitCode' = None
  /\ diskAtStart' = Disk
  /\ editsAtExtract' = edits
  /\ UNCHANGED <<parked, apiVars, uiVars, logFile, store, now, edits, diskVars, conn, closeCalls, rawTasks,
                 dataset, loadVars, error, settled, touched, fault, prevRun,
                 savedStreak>>

\* await setupDirectories()
SetupDirectories ==
  /\ pc = "Setup"
  /\ \/ /\ pc' = "Connecting"
        /\ UNCHANGED <<error, fault>>
     \/ \E c \in FsErrors : Throw("Failed to setup directories", "mkdir", c)
  /\ UNCHANGED <<parked, apiVars, uiVars, logFile, envVars, diskVars, conn, closeCalls, rawTasks, dataset,
                 loadVars, settled, exitCode, touched, runHist>>

\* await connectToDatabase()
ConnectToDatabase ==
  /\ pc = "Connecting"
  /\ \/ /\ conn' = "open"
        /\ pc' = "Extracting"
        /\ UNCHANGED <<error, fault>>
     \/ /\ \E c \in StoreErrors : Throw("MongoDB connection failed", "connect", c)
        /\ UNCHANGED conn
  /\ UNCHANGED <<parked, apiVars, uiVars, logFile, envVars, diskVars, closeCalls, rawTasks, dataset, loadVars,
                 settled, exitCode, touched, runHist>>

\* mutant: extractTasks swallows the error of the query and returns no task
ExtractTasksSwallow ==
  /\ pc = "Extracting"
  /\ \/ /\ \E answer \in QueryAnswers(store) : rawTasks' = answer
        /\ UNCHANGED fault
     \/ /\ \E c \in StoreErrors : fault' = Some([op |-> "find", cause |-> c])
        /\ rawTasks' = <<>>
  /\ editsAtExtract' = edits
  /\ pc' = "Transforming"
  /\ UNCHANGED <<parked, apiVars, uiVars, logFile, envVars, diskVars, conn, closeCalls, dataset, loadVars, error,
                 settled, exitCode, touched, diskAtStart, prevRun, savedStreak>>

\* await extractTasks()
ExtractTasks ==
  /\ pc = "Extracting"
  /\ \/ /\ \E answer \in QueryAnswers(store) : rawTasks' = answer
        /\ editsAtExtract' = edits
        /\ pc' = "Transforming"
        /\ UNCHANGED <<error, fault>>
     \/ /\ \E c \in StoreErrors : Throw("Data extraction failed", "find", c)
        /\ UNCHANGED <<rawTasks, editsAtExtract>>
  /\ UNCHANGED <<parked, apiVars, uiVars, logFile, envVars, diskVars, conn, closeCalls, dataset, loadVars,
                 settled, exitCode, touched, diskAtStart, prevRun, savedStreak>>

\* the exception of the first record on which the map callback throws
TransformError(raw) ==
  LET i == CHOOSE k \in 1..Len(raw) :
             /\ TransformThrows(raw[k])
             /\ \A j \in 1..(k - 1) : ~TransformThrows(raw[j])
  IN IF ~IsSome(raw[i].title) THEN "TypeError" ELSE "RangeError"

\* mutant: a record that makes the map callback throw is skipped and the
\* run goes on with the others
TransformTasksSkipBad ==
  /\ pc = "Transforming"
  /\ LET good == SelectSeq(rawTasks, LAMBDA t : ~TransformThrows(t))
     IN /\ dataset' = Some(transformTasks(good, now))
        /\ IF good # rawTasks
           THEN fault' = Some([op |-> "map", cause |-> TransformError(rawTasks)])
           ELSE UNCHANGED fault
  /\ pc' = "Loading"
  /\ UNCHANGED <<parked, apiVars, uiVars, logFile, envVars, diskVars, conn, closeCalls, rawTasks, loadVars,
                 error, settled, exitCode, touched, runHist>>

\* mutant: the catch block of transformTasks logs the exception and returns
\* a dataset without tasks
TransformTasksSilent ==
  /\ pc = "Transforming"
  /\ IF \E i \in 1..Len(rawTasks) : TransformThrows(rawTasks[i])
     THEN /\ dataset' = Some(transformTasks(<<>>, now))
          /\ fault' = Some([op |-> "map", cause |-> TransformError(rawTasks)])
     ELSE /\ dataset' = Some(transformTasks(rawTasks, now))
          /\ UNCHANGED fault
  /\ pc' = "Loading"
  /\ UNCHANGED <<parked, apiVars, uiVars, logFile, envVars, diskVars, conn, closeCalls, rawTasks, loadVars,
                 error, settled, exitCode, touched, runHist>>

\* transformTasks(rawTasks): synchronous
TransformTasks ==
  /\ pc = "Transforming"
  /\ IF \E i \in 1..Len(rawTasks) : TransformThrows(rawTasks[i])
     THEN /\ Throw("Data transformation failed", "map", TransformError(rawTasks))
          /\ UNCHANGED dataset
     ELSE /\ dataset' = Some(transformTasks(rawTasks, now))
          /\ pc' = "Loading"
          /\ UNCHANGED <<error, fault>>
  /\ UNCHANGED <<parked, apiVars, uiVars, logFile, envVars, diskVars, conn, closeCalls, rawTasks, loadVars,
                 settled, exitCode, touched, runHist>>

(***************************************************************************)
(* loadDataset and cleanupOldBackups.                                      *)
(***************************************************************************)
\* an operation of this run on the output directory
FsOp(op, name, version) == [op |-> op, name |-> name, version |-> version]

\* mutant: the comparison with the marker is lost, every run counts as changed
HasChangedAlways(marker, hash) == TRUE

\* mutant: hasChanged starts false, a missing marker leaves it so
HasChangedNeedsMarker(marker, hash) == IsSome(marker) /\ Val(marker) # hash

\* hasChanged of loadDataset: readFile rejects when latest.hash does not
\* exist and the catch block keeps hasChanged = true; the marker holds the
\* hex digest the code wrote, which trim() leaves as it is
HasChanged(marker, hash) == IF IsSome(marker) THEN Val(marker) # hash ELSE TRUE

\* the object loadDataset returns after saving
SavedResult(ds, hash) ==
  [saved |-> TRUE, version |-> ds.metadata.version, hash |-> hash,
   count |-> ds.metadata.count, stats |-> ds.metadata.statistics]

\* loadDataset up to its first write: the hash, the comparison with the
\* marker, the early return, the dataHash and changed fields
LoadCompare ==
  /\ pc = "Loading"
  /\ LET hash == generateDataHash(Val(dataset).tasks)
     IN /\ currentHash' = Some(hash)
        /\ previousHash' = latestHash
        /\ IF ~HasChanged(latestHash, hash)
           THEN /\ result' = Some([saved |-> FALSE, reason |-> "No changes detected"])
                /\ pc' = "Skipped"
                /\ UNCHANGED dataset
           ELSE /\ dataset' = Some(WithHash(Val(dataset), hash))
                /\ pc' = "WriteLatest"
                /\ UNCHANGED result
  /\ UNCHANGED <<parked, apiVars, uiVars, logFile, envVars, diskVars, conn, closeCalls, rawTasks, filesToDelete,
                 error, settled, exitCode, touched, fault, cleanupFailed,
                 preCleanup, runHist>>

\* mutant: the marker is read again before the first write, and the save
\* is given up when the marker has become the hash of this run
WriteLatestRechecks ==
  /\ pc = "WriteLatest"
  /\ IF latestHash = currentHash
     THEN /\ result' = Some([saved |-> FALSE, reason |-> "No changes detected"])
          /\ pc' = "Skipped"
          /\ UNCHANGED <<latestJson, touched, error, fault>>
     ELSE /\ touched' = touched \cup {FsOp("writeFile", "latest.json", <<>>)}
          /\ UNCHANGED result
          /\ \/ /\ latestJson' = Some(Val(dataset))
                /\ pc' = "WriteVersioned"
                /\ UNCHANGED <<error, fault>>
             \/ /\ \E c \in FsErrors : Throw("Data loading failed", "writeFile", c)
                /\ UNCHANGED latestJson
  /\ UNCHANGED <<parked, apiVars, uiVars, logFile, envVars, latestHash, backups, conn, closeCalls,
                 rawTasks, dataset, currentHash, previousHash, filesToDelete,
                 cleanupFailed, preCleanup, settled, exitCode, runHist>>

\* await fs.writeFile(latestPath, JSON.stringify(dataset, null, 2))
WriteLatest ==
  /\ pc = "WriteLatest"
  /\ touched' = touched \cup {FsOp("writeFile", "latest.json", <<>>)}
  /\ \/ /\ latestJson' = Some(Val(dataset))
        /\ pc' = "WriteVersioned"
        /\ UNCHANGED <<error, fault>>
     \/ /\ \E c \in FsErrors : Throw("Data loading failed", "writeFile", c)
        /\ UNCHANGED latestJson
  /\ UNCHANGED <<parked, apiVars, uiVars, logFile, envVars, latestHash, backups, conn, closeCalls, rawTasks,
                 dataset, loadVars, settled, exitCode, runHist>>

\* mutant: the write of the backup is not awaited, its failure is lost
WriteVersionedUnawaited ==
  /\ pc = "WriteVersioned"
  /\ LET version == Val(dataset).metadata.version
     IN /\ touched' = touched \cup {FsOp("writeFile", "dataset", version)}
        /\ \/ /\ backups' =
                   [v \in DOMAIN backups \cup {version} |->
                      IF v = version THEN Val(dataset) ELSE backups[v]]
              /\ UNCHANGED fault
           \/ /\ \E c \in FsErrors : fault' = Some([op |-> "writeFile", cause |-> c])
              /\ UNCHANGED backups
  /\ pc' = "WriteHash"
  /\ UNCHANGED <<parked, apiVars, uiVars, logFile, envVars, latestJson, latestHash, conn, closeCalls, rawTasks,
                 dataset, loadVars, error, settled, exitCode, runHist>>

\* mutant: the backup is written under the version of the snapshot the run
\* found, when there was one
WriteVersionedOverLast ==
  /\ pc = "WriteVersioned"
  /\ LET version ==
           IF IsSome(diskAtStart.latestJson)
           THEN Val(diskAtStart.latestJson).metadata.version
           ELSE Val(dataset).metadata.version
     IN /\ touched' = touched \cup {FsOp("writeFile", "dataset", version)}
        /\ \/ /\ backups' =
                   [v \in DOMAIN backups \cup {version} |->
                      IF v = version THEN Val(dataset) ELSE backups[v]]
              /\ pc' = "WriteHash"
              /\ UNCHANGED <<error, fault>>
           \/ /\ \E c \in FsErrors : Throw("Data loading failed", "writeFile", c)
              /\ UNCHANGED backups
  /\ UNCHANGED <<parked, apiVars, uiVars, logFile, envVars, latestJson, latestHash, conn, closeCalls, rawTasks,
                 dataset, loadVars, settled, exitCode, runHist>>

\* await fs.writeFile(versionedPath, JSON.stringify(dataset, null, 2))
WriteVersioned ==
  /\ pc = "WriteVersioned"
  /\ LET version == Val(dataset).metadata.version
     IN /\ touched' = touched \cup {FsOp("writeFile", "dataset", version)}
        /\ \/ /\ backups' =
                   [v \in DOMAIN backups \cup {version} |->
                      IF v = version THEN Val(dataset) ELSE backups[v]]
              /\ pc' = "WriteHash"
              /\ UNCHANGED <<error, fault>>
           \/ /\ \E c \in FsErrors : Throw("Data loading failed", "writeFile", c)
              /\ UNCHANGED backups
  /\ UNCHANGED <<parked, apiVars, uiVars, logFile, envVars, latestJson, latestHash, conn, closeCalls, rawTasks,
                 dataset, loadVars, settled, exitCode, runHist>>

\* await fs.writeFile(previousHashPath, currentHash)
WriteHash ==
  /\ pc = "WriteHash"
  /\ touched' = touched \cup {FsOp("writeFile", "latest.hash", <<>>)}
  /\ \/ /\ latestHash' = currentHash
        /\ pc' = "Cleanup"
        /\ UNCHANGED <<error, fault>>
     \/ /\ \E c \in FsErrors : Throw("Data loading failed", "writeFile", c)
        /\ UNCHANGED latestHash
  /\ UNCHANGED <<parked, apiVars, uiVars, logFile, envVars, latestJson, backups, conn, closeCalls, rawTasks,
                 dataset, loadVars, settled, exitCode, runHist>>

\* the end of loadDataset after cleanupOldBackups returned
LoadReturn ==
  /\ result' = Some(SavedResult(Val(dataset), Val(currentHash)))
  /\ pc' = "Committed"

\* mutant: cleanupOldBackups has no try block, its error fails loadDataset
CleanupEscapes(op, c) ==
  /\ cleanupFailed' = TRUE
  /\ fault' = Some([op |-> op, cause |-> c])
  /\ pc' = "Failed"
  /\ UNCHANGED result

\* cleanupOldBackups caught an error: a warning is logged, nothing is thrown
CleanupCaught(op, c) ==
  /\ cleanupFailed' = TRUE
  /\ fault' = Some([op |-> op, cause |-> c])
  /\ LoadReturn

\* cleanupOldBackups up to its first unlink: readdir, filter, sort, reverse,
\* slice
CleanupList ==
  /\ pc = "Cleanup"
  /\ preCleanup' = DOMAIN backups
  /\ touched' = touched \cup {FsOp("readdir", "output", <<>>)}
  /\ \/ LET doomed == SliceFrom(SortedDescending(DOMAIN backups), maxBackups)
        IN /\ filesToDelete' = doomed
           /\ IF doomed = <<>> THEN LoadReturn ELSE pc' = "Unlink" /\ UNCHANGED result
           /\ UNCHANGED <<cleanupFailed, fault>>
     \/ /\ \E c \in FsErrors : CleanupCaught("readdir", c)
        /\ UNCHANGED filesToDelete
  /\ UNCHANGED <<parked, apiVars, uiVars, logFile, envVars, diskVars, conn, closeCalls, rawTasks, dataset,
                 currentHash, previousHash, error, settled, exitCode, runHist>>

\* one turn of the loop of cleanupOldBackups: await fs.unlink(file)
CleanupUnlink ==
  /\ pc = "Unlink"
  /\ LET file == Head(filesToDelete)
     IN /\ touched' = touched \cup {FsOp("unlink", "dataset", file)}
        /\ \/ /\ backups' = [v \in DOMAIN backups \ {file} |-> backups[v]]
              /\ filesToDelete' = Tail(filesToDelete)
              /\ IF Tail(filesToDelete) = <<>> THEN LoadReturn
                 ELSE UNCHANGED <<pc, result>>
              /\ UNCHANGED <<cleanupFailed, fault>>
           \/ /\ \E c \in FsErrors : CleanupCaught("unlink", c)
              /\ UNCHANGED <<backups, filesToDelete>>
  /\ UNCHANGED <<parked, apiVars, uiVars, logFile, envVars, latestJson, latestHash, conn, closeCalls, rawTasks,
                 dataset, currentHash, previousHash, preCleanup, error, settled,
                 exitCode,
                 runHist>>

(***************************************************************************)
(* The end of runETL and the EXECUTION block.                              *)
(***************************************************************************)
\* mutant: disconnectFromDatabase is called at the end of the try block, not
\* in a finally block
FinallyOnSuccess ==
  /\ pc \in {"Committed", "Skipped", "Failed"}
  /\ IF pc = "Failed"
     THEN UNCHANGED <<closeCalls, conn>>
     ELSE /\ closeCalls' = closeCalls + 1
          /\ \/ conn' = "closed"
             \/ UNCHANGED conn
  /\ settled' = IF pc = "Failed" THEN "rejected" ELSE "resolved"
  /\ pc' = "Disconnected"
  /\ UNCHANGED <<parked, apiVars, uiVars, logFile, envVars, diskVars, rawTasks, dataset, loadVars, error,
                 exitCode, touched, fault, runHist>>

\* mutant: disconnectFromDatabase has no try block, an error of close()
\* leaves the finally block and rejects the promise of runETL
FinallyCloseThrows ==
  /\ pc \in {"Committed", "Skipped", "Failed"}
  /\ closeCalls' = closeCalls + 1
  /\ \/ /\ conn' = "closed"
        /\ settled' = IF pc = "Failed" THEN "rejected" ELSE "resolved"
     \/ /\ UNCHANGED conn
        /\ settled' = "rejected"
  /\ pc' = "Disconnected"
  /\ UNCHANGED <<parked, apiVars, uiVars, logFile, envVars, diskVars, rawTasks, dataset, loadVars, error,
                 exitCode, touched, fault, runHist>>

\* the finally block of runETL: disconnectFromDatabase is awaited, an error
\* of close() is logged as a warning; then the promise of runETL settles
Finally ==
  /\ pc \in {"Committed", "Skipped", "Failed"}
  /\ closeCalls' = closeCalls + 1
  /\ \/ conn' = "closed"
     \/ UNCHANGED conn
  /\ settled' = IF pc = "Failed" THEN "rejected" ELSE "resolved"
  /\ pc' = "Disconnected"
  /\ UNCHANGED <<parked, apiVars, uiVars, logFile, envVars, diskVars, rawTasks, dataset, loadVars, error,
                 exitCode, touched, fault, runHist>>

\* mutant: the catch callback exits with status 0 too
ExitStatusZero(outcome) == 0

\* status of process.exit in the then and the catch callbacks
ExitStatus(outcome) == IF outcome = "resolved" THEN 0 ELSE 1

\* what the history keeps of a run that ended
RunRecord ==
  [settled |-> settled,
   failed |-> IsSome(error),
   saved |-> IsSome(result) /\ Val(result).saved,
   rawTasks |-> rawTasks,
   hash |-> currentHash,
   edits |-> editsAtExtract]

\* runETL().then(...).catch(...): process.exit ends the process, and with it
\* everything the process held in memory
Exit ==
  /\ pc = "Disconnected"
  /\ exitCode' = Some(ExitStatus(settled))
  /\ pc' = "Idle"
  /\ conn' = "closed"
  /\ closeCalls' = 0
  /\ rawTasks' = <<>>
  /\ dataset' = None
  /\ currentHash' = None
  /\ previousHash' = None
  /\ filesToDelete' = <<>>
  /\ result' = None
  /\ error' = None
  /\ settled' = "pending"
  /\ touched' = {}
  /\ fault' = None
  /\ cleanupFailed' = FALSE
  /\ preCleanup' = {}
  /\ prevRun' = RunRecord
  /\ savedStreak' =
       IF settled = "resolved" /\ Val(result).saved
       THEN IF savedStreak < StreakCap THEN savedStreak + 1 ELSE StreakCap
       ELSE 0
  /\ UNCHANGED <<parked, apiVars, uiVars, logFile, envVars, diskVars, diskAtStart, editsAtExtract>>

Next ==
  \/ StoreInsert
  \/ StoreUpdate
  \/ StoreDelete
  \/ Tick
  \/ StartRun
  \/ SetupDirectories
  \/ ConnectToDatabase
  \/ ExtractTasks
  \/ TransformTasks
  \/ LoadCompare
  \/ WriteLatest
  \/ WriteVersioned
  \/ WriteHash
  \/ CleanupList
  \/ CleanupUnlink
  \/ Finally
  \/ Exit

Spec == Init /\ [][Next]_vars

SpecRetention == InitRetention /\ [][Next]_vars

(***************************************************************************)
(* Runs over a store that is left alone and holds two documents created    *)
(* in the same instant, so that the sort of extractTasks does not decide   *)
(* their order.                                                            *)
(***************************************************************************)
\* the two documents, in the order in which the earlier runs got them
TiedRaw ==
  <<EarlierDoc,
    TaskDoc(2, Some(<<"a">>), None, Some(FALSE), Some("High"), None, Some(0), Some(0))>>

TiedDataset(m) ==
  LET ds == transformTasks(TiedRaw, m)
  IN WithHash(ds, generateDataHash(ds.tasks))

TiedBackups ==
  [v \in {generateVersion(m) : m \in EarlierKept(MaxEarlier)} |->
     TiedDataset(CHOOSE m \in EarlierKept(MaxEarlier) : generateVersion(m) = v)]

\* the output directory that MaxEarlier earlier runs over the two documents
\* left, the last of them in the starting minute
InitTied ==
  /\ store = Range(TiedRaw)
  /\ now = StartMinute
  /\ edits = 0
  /\ runs = 0
  /\ latestJson = Some(TiedDataset(StartMinute))
  /\ latestHash = Some(generateDataHash(TiedDataset(StartMinute).tasks))
  /\ backups = TiedBackups
  /\ pc = "Idle"
  /\ conn = "closed"
  /\ closeCalls = 0
  /\ rawTasks = <<>>
  /\ dataset = None
  /\ currentHash = None
  /\ previousHash = None
  /\ logFile = {}
  /\ filesToDelete = <<>>
  /\ result = None
  /\ error = None
  /\ settled = "pending"
  /\ exitCode = Some(0)
  /\ touched = {}
  /\ fault = None
  /\ cleanupFailed = FALSE
  /\ preCleanup = {}
  /\ diskAtStart = Disk
  /\ editsAtExtract = 0
  /\ prevRun =
       [settled |-> "resolved", failed |-> FALSE, saved |-> TRUE,
        rawTasks |-> TiedRaw,
        hash |-> Some(generateDataHash(TiedDataset(StartMinute).tasks)),
        edits |-> 0]
  /\ savedStreak = IF MaxEarlier < StreakCap THEN MaxEarlier ELSE StreakCap
  /\ parked = None
  /\ AppMounted
  /\ ServerStarted(DeployedEnv)

\* the steps of a run of the script
NextRun ==
  \/ StartRun
  \/ SetupDirectories
  \/ ConnectToDatabase
  \/ ExtractTasks
  \/ TransformTasks
  \/ LoadCompare
  \/ WriteLatest
  \/ WriteVersioned
  \/ WriteHash
  \/ CleanupList
  \/ CleanupUnlink
  \/ Finally
  \/ Exit

NextTied ==
  \/ Tick
  \/ NextRun

SpecTied == InitTied /\ [][NextTied]_vars

(***************************************************************************)
(* Runs after the local clock was set back, as it is at the end of         *)
(* daylight saving time: generateVersion reads the local hour and minute,  *)
(* so the backups on disk carry tokens of a later local time than now.     *)
(***************************************************************************)
\* the local minutes at which the backups on disk were written
LaterMinutes == (StartMinute + 1)..(StartMinute + maxBackups)

LastLater == StartMinute + maxBackups

LaterBackups ==
  [v \in {generateVersion(m) : m \in LaterMinutes} |->
     EarlierDataset(CHOOSE m \in LaterMinutes : generateVersion(m) = v)]

InitSetBack ==
  /\ store = {EarlierRaw(LastLater)[1]}
  /\ now = StartMinute
  /\ edits = 0
  /\ runs = 0
  /\ latestJson = Some(EarlierDataset(LastLater))
  /\ latestHash = Some(generateDataHash(EarlierDataset(LastLater).tasks))
  /\ backups = LaterBackups
  /\ pc = "Idle"
  /\ conn = "closed"
  /\ closeCalls = 0
  /\ rawTasks = <<>>
  /\ dataset = None
  /\ currentHash = None
  /\ previousHash = None
  /\ logFile = {}
  /\ filesToDelete = <<>>
  /\ result = None
  /\ error = None
  /\ settled = "pending"
  /\ exitCode = Some(0)
  /\ touched = {}
  /\ fault = None
  /\ cleanupFailed = FALSE
  /\ preCleanup = {}
  /\ diskAtStart = Disk
  /\ editsAtExtract = 0
  /\ prevRun =
       [settled |-> "resolved", failed |-> FALSE, saved |-> TRUE,
        rawTasks |-> EarlierRaw(LastLater),
        hash |-> Some(generateDataHash(EarlierDataset(LastLater).tasks)),
        edits |-> 0]
  /\ savedStreak = IF maxBackups < StreakCap THEN maxBackups ELSE StreakCap
  /\ parked = None
  /\ AppMounted
  /\ ServerStarted(DeployedEnv)

NextSetBack ==
  \/ StoreUpdate
  \/ Tick
  \/ NextRun

SpecSetBack == InitSetBack /\ [][NextSetBack]_vars

(***************************************************************************)
(* The log file.  log(message) writes to the console and calls             *)
(* fs.appendFile without awaiting it: the line reaches the file in a later *)
(* turn of the event loop, if the process lives to see it.  Of the         *)
(* messages of a run, the model follows those of runETL and of the         *)
(* EXECUTION block; the messages of the stages are appended the same way.  *)
(***************************************************************************)
\* the messages runETL has passed to log when it stands at p
Logged(p, outcome) ==
  (IF p # "Idle" THEN {"Starting ETL process..."} ELSE {})
    \cup (IF p = "Disconnected"
          THEN {IF outcome = "resolved" THEN "ETL process completed"
                ELSE "ETL process failed"}
          ELSE {})

\* the message the callbacks of the EXECUTION block pass to log, in the
\* statement before process.exit
LoggedAtExit(code) ==
  IF code = 0 THEN "ETL pipeline completed successfully"
  ELSE "ETL pipeline failed"

LogLine(run, message) == [run |-> run, message |-> message]

\* an appendFile that log started earlier in this process completes
AppendSettles ==
  /\ pc # "Idle"
  /\ \E message \in Logged(pc, settled) :
       /\ LogLine(runs, message) \notin logFile
       /\ logFile' = logFile \cup {LogLine(runs, message)}
  /\ UNCHANGED <<parked, apiVars, uiVars, envVars, diskVars, runVars>>

InitLog ==
  /\ InitAfter(MaxEarlier)
  /\ parked = None
  /\ AppMounted
  /\ ServerStarted(DeployedEnv)

NextLog ==
  \/ StoreUpdate
  \/ Tick
  \/ NextRun
  \/ AppendSettles

SpecLog == InitLog /\ [][NextLog]_vars

(***************************************************************************)
(* transformTasks and the fingerprint on every kind of document.  lean()   *)
(* returns the documents as they are stored, without the defaults and the  *)
(* validation of taskSchema, so a field may be missing and priority may    *)
(* hold a word outside the enum.  The run has connected and extracted; it  *)
(* transforms and fingerprints what it extracted.                          *)
(***************************************************************************)
\* the instants at which the run may transform
Instants == {StartMinute, StartMinute + 1}

AnyCompleteds == {None, Some(FALSE), Some(TRUE)}
AnyPriorities == {None, Some("Low"), Some("Medium"), Some("High"), Some("Urgent")}
AnyDueDates == {None, Some(StartMinute)}

\* the documents with id i that the collection may hold
AnyDocs(i) ==
  {TaskDoc(i, Some(<<"a">>), None, co, pr, du, Some(0), Some(0)) :
     co \in AnyCompleteds, pr \in AnyPriorities, du \in AnyDueDates}

\* what the query of extractTasks may have returned
AnyRawTasks ==
  UNION {{s \in [1..n -> UNION {AnyDocs(i) : i \in TaskIds}] :
            \A i \in 1..n : s[i].id = i} : n \in 0..MaxTasks}

InitTransform ==
  /\ rawTasks \in AnyRawTasks
  /\ store = {rawTasks[i] : i \in DOMAIN rawTasks}
  /\ now \in Instants
  /\ edits = 0
  /\ runs = 1
  /\ latestJson = None
  /\ latestHash = None
  /\ backups = << >>
  /\ pc = "Transforming"
  /\ conn = "open"
  /\ closeCalls = 0
  /\ dataset = None
  /\ currentHash = None
  /\ previousHash = None
  /\ logFile = {}
  /\ filesToDelete = <<>>
  /\ result = None
  /\ error = None
  /\ settled = "pending"
  /\ exitCode = None
  /\ touched = {}
  /\ fault = None
  /\ cleanupFailed = FALSE
  /\ preCleanup = {}
  /\ diskAtStart = Disk
  /\ editsAtExtract = 0
  /\ prevRun = NoRun
  /\ savedStreak = 0
  /\ parked = None
  /\ AppMounted
  /\ ServerStarted(DeployedEnv)

NextTransform ==
  \/ TransformTasks
  \/ LoadCompare

SpecTransform == InitTransform /\ [][NextTransform]_vars

(***************************************************************************)
(* The router of the ETL trigger, one step for the arrival of a request,   *)
(* one for the middleware and one for each stretch of a handler between    *)
(* two awaits.  The server takes the requests one after the other here;    *)
(* no handler keeps anything between two requests.                         *)
(***************************************************************************)
\* everything but the API server
etlVars ==
  <<envVars, diskVars, runVars, parked, logFile>>

\* a request arrives for one of the two routes of the router
Receive ==
  /\ apiPc \in {"Listening", "Responded"}
  /\ \E r \in Routes : \E h \in HeaderValues :
       req' = Some([route |-> r, header |-> h])
  /\ res' = None
  /\ dispatches' = 0
  /\ githubResponse' = None
  /\ apiPc' = "Auth"
  /\ UNCHANGED <<env, readyState, etlVars, uiVars>>

\* adminAuth(req, res, next)
AdminAuth ==
  /\ apiPc = "Auth"
  /\ LET authToken == Val(req).header
     IN IF TokenMissing(authToken)
        THEN /\ res' = Some(Json(401, FALSE, "Access denied. Admin token required."))
             /\ apiPc' = "Responded"
        ELSE IF TokenInvalid(authToken, env.ADMIN_TOKEN)
        THEN /\ res' = Some(Json(401, FALSE, "Invalid admin token."))
             /\ apiPc' = "Responded"
        ELSE /\ apiPc' = Val(req).route
             /\ UNCHANGED res
  /\ UNCHANGED <<env, req, dispatches, readyState, githubResponse, etlVars, uiVars>>

\* the handler of POST /trigger-etl up to await axios.post(...)
TriggerEtl ==
  /\ apiPc = "POST /trigger-etl"
  /\ IF ~TruthyWord(env.GITHUB_TOKEN)
     THEN /\ res' = Some(Json(500, FALSE, "GitHub token not configured on server."))
          /\ apiPc' = "Responded"
          /\ UNCHANGED dispatches
     ELSE IF ~TruthyWord(env.GITHUB_REPO)
     THEN /\ res' = Some(Json(500, FALSE, "GitHub repository not configured on server."))
          /\ apiPc' = "Responded"
          /\ UNCHANGED dispatches
     ELSE /\ dispatches' = dispatches + 1
          /\ apiPc' = "Dispatching"
          /\ UNCHANGED res
  /\ UNCHANGED <<env, req, readyState, githubResponse, etlVars, uiVars>>

\* the error message of the catch block of the handler
TriggerError(outcome) ==
  CASE outcome = "ECONNABORTED" -> "Request timeout while triggering ETL workflow."
    [] outcome = "404" -> "GitHub repository not found or token lacks permissions."
    [] outcome = "401" -> "GitHub token is invalid or expired."
    [] OTHER -> "Failed to trigger ETL workflow. Please try again."

\* mutant: every status of success that GitHub answers counts as triggered
DispatchSettlesAny2xx ==
  /\ apiPc = "Dispatching"
  /\ \E outcome \in GithubOutcomes :
       /\ githubResponse' = Some(outcome)
       /\ res' = IF outcome \in {"204", "200"}
                 THEN Some(Json(200, TRUE, ""))
                 ELSE Some(Json(500, FALSE, TriggerError(outcome)))
  /\ apiPc' = "Responded"
  /\ UNCHANGED <<env, req, dispatches, readyState, etlVars, uiVars>>

\* the handler of POST /trigger-etl after await axios.post(...)
DispatchSettles ==
  /\ apiPc = "Dispatching"
  /\ \E outcome \in GithubOutcomes :
       /\ githubResponse' = Some(outcome)
       /\ res' = IF outcome = "204"
                 THEN Some(Json(200, TRUE, ""))
                 ELSE Some(Json(500, FALSE, TriggerError(outcome)))
  /\ apiPc' = "Responded"
  /\ UNCHANGED <<env, req, dispatches, readyState, etlVars, uiVars>>

\* the handler of GET /status
GetStatus ==
  /\ apiPc = "GET /status"
  /\ res' = Some(Json(200, TRUE, ""))
  /\ apiPc' = "Responded"
  /\ UNCHANGED <<env, req, dispatches, readyState, githubResponse, etlVars, uiVars>>

\* the server starts with any environment; the script is not running
InitTrigger ==
  /\ InitAfter(0)
  /\ parked = None
  /\ AppMounted
  /\ \E e \in Envs : ServerStarted(e)

NextTrigger ==
  \/ Receive
  \/ AdminAuth
  \/ TriggerEtl
  \/ DispatchSettles
  \/ GetStatus

SpecTrigger == InitTrigger /\ [][NextTrigger]_vars

\* a request that the server took is handled to its end: the middleware and
\* the handlers run, and axios.post settles within its timeout
SpecTriggerFair ==
  /\ SpecTrigger
  /\ WF_vars(AdminAuth)
  /\ WF_vars(TriggerEtl)
  /\ WF_vars(DispatchSettles)
  /\ WF_vars(GetStatus)

(***************************************************************************)
(* The application of the API server, app.js: the router of the ETL        *)
(* trigger is mounted in it next to the health check.                      *)
(***************************************************************************)
\* mongoose.connection.readyState: disconnected, connected, connecting,
\* disconnecting, uninitialized
ReadyStates == {0, 1, 2, 3, 99}

\* mutant: the server counts as healthy unless the connection is down
HealthCodeUnlessDown(state) == IF state # 0 THEN 200 ELSE 503

\* httpCode of the health check
HealthCode(state) == IF state = 1 THEN 200 ELSE 503

\* healthcheck.database
HealthDatabase(state) == IF state = 1 THEN "connected" ELSE "disconnected"

\* the connection of the server to the store changes its state
ConnectionChanges ==
  /\ \E state \in ReadyStates \ {readyState} : readyState' = state
  /\ UNCHANGED <<env, apiPc, req, res, dispatches, githubResponse, etlVars, uiVars>>

\* a request arrives for the health check
ReceiveHealth ==
  /\ apiPc \in {"Listening", "Responded"}
  /\ \E h \in HeaderValues :
       req' = Some([route |-> "GET /api/health", header |-> h])
  /\ res' = None
  /\ dispatches' = 0
  /\ githubResponse' = None
  /\ apiPc' = "GET /api/health"
  /\ UNCHANGED <<env, readyState, etlVars, uiVars>>

\* the handler of GET /api/health
Health ==
  /\ apiPc = "GET /api/health"
  /\ res' = Some([status |-> HealthCode(readyState), success |-> TRUE,
                  message |-> "Server is healthy",
                  database |-> HealthDatabase(readyState)])
  /\ apiPc' = "Responded"
  /\ UNCHANGED <<env, req, dispatches, readyState, githubResponse, etlVars, uiVars>>

NextApp ==
  \/ NextTrigger
  \/ ConnectionChanges
  \/ ReceiveHealth
  \/ Health

SpecApp == InitTrigger /\ [][NextApp]_vars

(***************************************************************************)
(* The frontend at work.  A step is what one event does: the handler, the  *)
(* state it sets, and the render that follows, in which TaskList computes  *)
(* filteredAndSortedTasks anew and the TaskItems that left the page lose   *)
(* their state.                                                            *)
(***************************************************************************)
backendVars == <<etlVars, apiVars>>

Happened(target, id) == event' = Some([target |-> target, id |-> id])

\* the render after the states were set to these values
Render(tasks, ld, f, s, term, shown) ==
  /\ tasksState' = Rendered(tasks, f, s, term)
  /\ loading' = ld
  /\ filter' = f
  /\ sort' = s
  /\ searchTerm' = term
  /\ showConfirmDelete' =
       KeepMounted(shown, Mounted(Rendered(tasks, f, s, term), ld, f, s, term))

\* fetchTasks, from the answer of taskService.getTasks on
FetchTasksSettles ==
  /\ loading
  /\ \/ \E fetched \in ServerLists :
          Render(fetched, FALSE, filter, sort, searchTerm, showConfirmDelete)
     \/ Render(tasksState, FALSE, filter, sort, searchTerm, showConfirmDelete)
  /\ Happened("fetchTasks", "")
  /\ UNCHANGED <<onDeleteCalls, deleting, backendVars>>

\* handleCreateTask, taskService.createTask having answered
HandleCreateTask ==
  /\ \E id \in FrontIds \ (Ids(tasksState) \cup deleting) :
       /\ Render(<<FrontTask(id, FALSE)>> \o tasksState, loading, filter, sort,
                 searchTerm, showConfirmDelete)
       /\ Happened("handleCreateTask", id)
  /\ UNCHANGED <<onDeleteCalls, deleting, backendVars>>

\* handleToggleComplete of a TaskItem and handleUpdateTask,
\* taskService.updateTask having answered
HandleUpdateTask ==
  /\ \E id \in Mounted(tasksState, loading, filter, sort, searchTerm) :
       /\ Render([i \in DOMAIN tasksState |->
                   IF tasksState[i]._id = id
                   THEN FrontTask(id, ~tasksState[i].completed)
                   ELSE tasksState[i]],
                 loading, filter, sort, searchTerm, showConfirmDelete)
       /\ Happened("handleUpdateTask", id)
  /\ UNCHANGED <<onDeleteCalls, deleting, backendVars>>

\* the button titled Delete task of a TaskItem
ClickDeleteTask ==
  /\ \E id \in Mounted(tasksState, loading, filter, sort, searchTerm) :
       /\ showConfirmDelete' = [showConfirmDelete EXCEPT ![id] = TRUE]
       /\ Happened("Delete task", id)
  /\ UNCHANGED <<tasksState, loading, filter, sort, searchTerm, onDeleteCalls,
                 deleting, backendVars>>

\* the button Cancel of the confirmation modal
ClickCancel ==
  /\ \E id \in FrontIds :
       /\ showConfirmDelete[id]
       /\ showConfirmDelete' = [showConfirmDelete EXCEPT ![id] = FALSE]
       /\ Happened("Cancel", id)
  /\ UNCHANGED <<tasksState, loading, filter, sort, searchTerm, onDeleteCalls,
                 deleting, backendVars>>

\* mutant: the button titled Delete task deletes at once
handleDeleteUnconfirmed ==
  /\ Len(onDeleteCalls) < MaxDeleteCalls
  /\ \E id \in Mounted(tasksState, loading, filter, sort, searchTerm) :
       /\ onDeleteCalls' = Append(onDeleteCalls, id)
       /\ deleting' = deleting \cup {id}
       /\ showConfirmDelete' = [showConfirmDelete EXCEPT ![id] = FALSE]
       /\ Happened("Delete", id)
  /\ UNCHANGED <<tasksState, loading, filter, sort, searchTerm, backendVars>>

\* handleDelete, the button Delete of the confirmation modal: onDelete is
\* handleDeleteTask, which runs up to its await
handleDelete ==
  /\ Len(onDeleteCalls) < MaxDeleteCalls
  /\ \E id \in FrontIds :
       /\ showConfirmDelete[id]
       /\ onDeleteCalls' = Append(onDeleteCalls, id)
       /\ deleting' = deleting \cup {id}
       /\ showConfirmDelete' = [showConfirmDelete EXCEPT ![id] = FALSE]
       /\ Happened("Delete", id)
  /\ UNCHANGED <<tasksState, loading, filter, sort, searchTerm, backendVars>>

\* handleDeleteTask, from the answer of taskService.deleteTask on
HandleDeleteTaskSettles ==
  /\ \E id \in deleting :
       /\ deleting' = deleting \ {id}
       /\ \/ Render(Filter(tasksState,
                           {i \in DOMAIN tasksState : tasksState[i]._id # id}),
                    loading, filter, sort, searchTerm, showConfirmDelete)
          \/ Render(tasksState, loading, filter, sort, searchTerm,
                    showConfirmDelete)
       /\ Happened("handleDeleteTask", id)
  /\ UNCHANGED <<onDeleteCalls, backendVars>>

\* the select of the filter
SetFilter ==
  /\ \E f \in FilterTypes \ {filter} :
       Render(tasksState, loading, f, sort, searchTerm, showConfirmDelete)
  /\ Happened("setFilter", "")
  /\ UNCHANGED <<onDeleteCalls, deleting, backendVars>>

\* the select of the sort
SetSort ==
  /\ \E s \in SortTypes \ {sort} :
       Render(tasksState, loading, filter, s, searchTerm, showConfirmDelete)
  /\ Happened("setSort", "")
  /\ UNCHANGED <<onDeleteCalls, deleting, backendVars>>

\* the search box
SetSearchTerm ==
  /\ \E term \in SearchTerms \ {searchTerm} :
       Render(tasksState, loading, filter, sort, term, showConfirmDelete)
  /\ Happened("setSearchTerm", "")
  /\ UNCHANGED <<onDeleteCalls, deleting, backendVars>>

InitFrontend ==
  /\ InitAfter(0)
  /\ parked = None
  /\ AppMounted
  /\ ServerStarted(DeployedEnv)

NextFrontend ==
  \/ FetchTasksSettles
  \/ HandleCreateTask
  \/ HandleUpdateTask
  \/ ClickDeleteTask
  \/ ClickCancel
  \/ handleDelete
  \/ HandleDeleteTaskSettles
  \/ SetFilter
  \/ SetSort
  \/ SetSearchTerm

SpecFrontend == InitFrontend /\ [][NextFrontend]_vars

(***************************************************************************)
(* Two processes of the script on the same collection and the same output  *)
(* directory, as two triggers that come close together start them.  Node   *)
(* runs a process up to its next await; between two awaits of one process  *)
(* the other may run.  The variables of the run are those of the process   *)
(* that takes the next step; parked holds what the other process has in    *)
(* memory.                                                                 *)
(***************************************************************************)
\* what the process that takes the next step holds in memory
Context ==
  [pc |-> pc, conn |-> conn, closeCalls |-> closeCalls, rawTasks |-> rawTasks,
   dataset |-> dataset, currentHash |-> currentHash,
   previousHash |-> previousHash, filesToDelete |-> filesToDelete,
   result |-> result, error |-> error, settled |-> settled,
   exitCode |-> exitCode, touched |-> touched, fault |-> fault,
   cleanupFailed |-> cleanupFailed, preCleanup |-> preCleanup,
   diskAtStart |-> diskAtStart, editsAtExtract |-> editsAtExtract]

\* the other process takes the next step
Switch ==
  /\ IsSome(parked)
  /\ Val(parked) # Context
  /\ parked' = Some(Context)
  /\ pc' = Val(parked).pc
  /\ conn' = Val(parked).conn
  /\ closeCalls' = Val(parked).closeCalls
  /\ rawTasks' = Val(parked).rawTasks
  /\ dataset' = Val(parked).dataset
  /\ currentHash' = Val(parked).currentHash
  /\ previousHash' = Val(parked).previousHash
  /\ filesToDelete' = Val(parked).filesToDelete
  /\ result' = Val(parked).result
  /\ error' = Val(parked).error
  /\ settled' = Val(parked).settled
  /\ exitCode' = Val(parked).exitCode
  /\ touched' = Val(parked).touched
  /\ fault' = Val(parked).fault
  /\ cleanupFailed' = Val(parked).cleanupFailed
  /\ preCleanup' = Val(parked).preCleanup
  /\ diskAtStart' = Val(parked).diskAtStart
  /\ editsAtExtract' = Val(parked).editsAtExtract
  /\ UNCHANGED <<envVars, diskVars, prevRun, savedStreak, apiVars, uiVars,
                 logFile>>

\* two processes, neither of them running yet, and the output directory
\* that MaxEarlier earlier runs left
InitConcurrent ==
  /\ InitAfter(MaxEarlier)
  /\ parked = Some(Context)
  /\ AppMounted
  /\ ServerStarted(DeployedEnv)

\* the steps of the two processes; of the environment, the edits of the
\* documents the collection holds and the passing of time
NextConcurrent ==
  \/ StoreUpdate
  \/ Tick
  \/ StartRun
  \/ SetupDirectories
  \/ ConnectToDatabase
  \/ ExtractTasks
  \/ TransformTasks
  \/ LoadCompare
  \/ WriteLatest
  \/ WriteVersioned
  \/ WriteHash
  \/ CleanupList
  \/ CleanupUnlink
  \/ Finally
  \/ Exit
  \/ Switch

SpecConcurrent == InitConcurrent /\ [][NextConcurrent]_vars

(***************************************************************************)
(* Vocabulary of the properties.                                           *)
(***************************************************************************)
\* the stage of the run, in the words of the orchestrator's state machine;
\* the directories are set up before the connection is opened, and the
\* steps of loadDataset and cleanupOldBackups all belong to Loading
Stage(p) ==
  CASE p \in {"Idle", "Setup"} -> "Idle"
    [] p \in {"Loading", "WriteLatest", "WriteVersioned", "WriteHash",
              "Cleanup", "Unlink"} -> "Loading"
    [] OTHER -> p

\* the moves of the orchestrator's state machine; Disconnected to Idle is
\* the end of the process
StageMoves ==
  {<<"Idle", "Connecting">>, <<"Connecting", "Extracting">>,
   <<"Extracting", "Transforming">>, <<"Transforming", "Loading">>,
   <<"Loading", "Committed">>, <<"Loading", "Skipped">>,
   <<"Committed", "Disconnected">>, <<"Skipped", "Disconnected">>,
   <<"Failed", "Disconnected">>, <<"Disconnected", "Idle">>}
    \cup {<<st, "Failed">> :
            st \in {"Idle", "Connecting", "Extracting", "Transforming", "Loading"}}

\* loadDataset returned saved: true
Saved == IsSome(result) /\ Val(result).saved

\* runETL has settled and the process has not exited yet
RunEnded == pc = "Disconnected"

\* this run and the run before it both resolved
TwoRunsResolved ==
  /\ RunEnded
  /\ settled = "resolved"
  /\ prevRun.settled = "resolved"

DocFields ==
  {"title", "description", "completed", "priority", "dueDate", "createdAt",
   "updatedAt"}

\* documents a and b are the same document and differ in exactly one field
DiffersInOneField(a, b) ==
  /\ a.id = b.id
  /\ Cardinality({f \in DocFields : a[f] # b[f]}) = 1

\* between the answers before and after, exactly one field of one document
\* was changed
OneFieldChanged(before, after) ==
  \E a \in Range(before) : \E b \in Range(after) :
    /\ DiffersInOneField(a, b)
    /\ Range(before) \ {a} = Range(after) \ {b}

\* the same, and the change shows in the transformed task
OneVisibleFieldChanged(before, after) ==
  \E a \in Range(before) : \E b \in Range(after) :
    /\ DiffersInOneField(a, b)
    /\ Range(before) \ {a} = Range(after) \ {b}
    /\ ~TransformThrows(a)
    /\ ~TransformThrows(b)
    /\ TransformTask(a) # TransformTask(b)

Min(a, b) == IF a < b THEN a ELSE b

(***************************************************************************)
(* C1.  No-op idempotence: when runETL is executed twice in a row and the  *)
(* store is not modified between the two runs, the second run returns      *)
(* saved: false and leaves latest.json, every dataset-*.json and           *)
(* latest.hash as they were before it.                                     *)
(***************************************************************************)
C1_NoOpIdempotence ==
  (TwoRunsResolved /\ prevRun.edits = editsAtExtract)
    => (~Saved /\ Disk = diskAtStart)

\* the same when the store answered both queries in the same order
C1_NoOpIdempotenceSameAnswer ==
  (TwoRunsResolved /\ prevRun.edits = editsAtExtract
     /\ prevRun.rawTasks = rawTasks)
    => (~Saved /\ Disk = diskAtStart)

C3_AnyFieldChangeSaves ==
  (TwoRunsResolved /\ OneFieldChanged(prevRun.rawTasks, rawTasks))
    => /\ currentHash # prevRun.hash
       /\ Saved
       /\ Val(dataset).metadata.version \notin DOMAIN diskAtStart.backups
       /\ Val(dataset).metadata.version \in DOMAIN backups

(***************************************************************************)
(* C3, amended.  For two consecutive runs that both resolve, between which *)
(* exactly one field of one task is changed so that the transformed task   *)
(* changes, the second run computes a different fingerprint, returns       *)
(* saved: true and writes its dataset to dataset-<version>.json, the       *)
(* version being that of the minute of the run.                            *)
(***************************************************************************)
C3_VisibleChangeSaves ==
  (TwoRunsResolved /\ OneVisibleFieldChanged(prevRun.rawTasks, rawTasks))
    => /\ currentHash # prevRun.hash
       /\ Saved
       /\ Val(result).version = generateVersion(now)
       /\ Val(result).version \in DOMAIN backups
       /\ backups[Val(result).version] = Val(dataset)

C3_Witness ==
  /\ TwoRunsResolved
  /\ OneVisibleFieldChanged(prevRun.rawTasks, rawTasks)
  /\ Saved
  /\ prevRun.saved

(***************************************************************************)
(* C4.  Retention bound, as claimed: after N consecutive runs each of      *)
(* which saves (N at least maxBackups), with maxBackups = 5, the output    *)
(* directory contains exactly 5 dataset-*.json files.                      *)
(***************************************************************************)
C4_ExactlyMaxBackups ==
  (RunEnded /\ settled = "resolved" /\ Saved /\ savedStreak + 1 >= maxBackups)
    => Cardinality(DOMAIN backups) = maxBackups

(***************************************************************************)
(* C4, amended.  After a run that saved and whose retention cleanup raised *)
(* no error, the output directory contains min(maxBackups, k) dataset      *)
(* files, k being the number of dataset files present when the cleanup     *)
(* listed the directory, and they are the ones with the greatest version   *)
(* tokens among those k.                                                   *)
(***************************************************************************)
C4_RetentionBound ==
  (RunEnded /\ settled = "resolved" /\ Saved /\ ~cleanupFailed)
    => /\ Cardinality(DOMAIN backups) = Min(maxBackups, Cardinality(preCleanup))
       /\ DOMAIN backups \subseteq preCleanup
       /\ \A kept \in DOMAIN backups : \A gone \in preCleanup \ DOMAIN backups :
            LexLess(gone, kept)

C4_Witness ==
  /\ RunEnded
  /\ settled = "resolved"
  /\ Saved
  /\ ~cleanupFailed
  /\ Cardinality(preCleanup) > maxBackups
  /\ Cardinality(DOMAIN backups) = maxBackups

(***************************************************************************)
(* C5.  On every exit path of runETL the store connection is released      *)
(* exactly once, the result or the error reaches the caller only after the *)
(* release has been attempted, and a stage error is rethrown to the        *)
(* caller, never swallowed.                                                *)
(***************************************************************************)
C5_ReleaseOnEveryPath ==
  /\ closeCalls <= 1
  /\ settled # "pending" => closeCalls = 1
  /\ RunEnded =>
       /\ settled # "pending"
       /\ IsSome(error) => settled = "rejected"
       /\ ~IsSome(error) => (settled = "resolved" /\ IsSome(result))
  /\ (IsSome(fault) /\ Val(fault).op \notin {"readdir", "unlink"}) =>
       (IsSome(error) /\ Val(error).cause = Val(fault).cause)

C5_Witness ==
  /\ RunEnded
  /\ settled = "rejected"
  /\ closeCalls = 1
  /\ Val(error).message = "Data loading failed"

(***************************************************************************)
(* C6.  When the script is executed directly, the process exits with       *)
(* status 0 if and only if runETL resolved (saved: true and saved: false   *)
(* alike), and with a nonzero status whenever a stage raised a fatal       *)
(* error.                                                                  *)
(***************************************************************************)
C6_ExitStatus ==
  (pc = "Idle" /\ prevRun.settled # "none")
    => /\ IsSome(exitCode)
       /\ Val(exitCode) = 0 <=> prevRun.settled = "resolved"
       /\ prevRun.failed => Val(exitCode) # 0

C6_Witness ==
  /\ pc = "Idle"
  /\ prevRun.settled = "resolved"
  /\ ~prevRun.saved
  /\ exitCode = Some(0)

(***************************************************************************)
(* C7.  If connecting to the store or querying it fails, the run fails and *)
(* none of latest.json, latest.hash or any dataset-*.json is created,      *)
(* modified or deleted by that run.                                        *)
(***************************************************************************)
C7_StoreFailureWritesNothing ==
  (IsSome(fault) /\ Val(fault).op \in {"connect", "find"})
    => /\ pc \in {"Failed", "Disconnected"}
       /\ IsSome(error)
       /\ settled # "resolved"
       /\ ~IsSome(result)
       /\ touched = {}
       /\ Disk = diskAtStart

C7_Witness ==
  /\ RunEnded
  /\ IsSome(fault)
  /\ Val(fault).op = "find"
  /\ settled = "rejected"
  /\ IsSome(latestJson)

(***************************************************************************)
(* C8.  If any of the three writes of loadDataset fails, loadDataset       *)
(* raises an error carrying the underlying cause, the run never returns    *)
(* saved: true, and the run ends in the failed state.                      *)
(***************************************************************************)
C8_WriteFailureIsFatal ==
  (IsSome(fault) /\ Val(fault).op = "writeFile")
    => /\ pc \in {"Failed", "Disconnected"}
       /\ error = Some([message |-> "Data loading failed", cause |-> Val(fault).cause])
       /\ ~IsSome(result)
       /\ settled # "resolved"
       /\ RunEnded => settled = "rejected"

C8_Witness ==
  /\ RunEnded
  /\ IsSome(fault)
  /\ Val(fault).op = "writeFile"
  /\ settled = "rejected"
  /\ latestJson = dataset
  /\ latestHash # currentHash

(***************************************************************************)
(* C9.  A failure while listing or deleting old backups is not fatal: when *)
(* the three writes of loadDataset succeeded, loadDataset still returns    *)
(* saved: true with version, hash, count and stats, whatever error occurs  *)
(* during cleanup.                                                         *)
(***************************************************************************)
C9_CleanupFailureIsNotFatal ==
  cleanupFailed
    => /\ pc \in {"Committed", "Disconnected"}
       /\ ~IsSome(error)
       /\ result = Some(SavedResult(Val(dataset), Val(currentHash)))
       /\ DOMAIN Val(result) = {"saved", "version", "hash", "count", "stats"}
       /\ Val(result).saved
       /\ latestJson = dataset
       /\ latestHash = currentHash
       /\ RunEnded => settled = "resolved"

C9_Witness ==
  /\ RunEnded
  /\ cleanupFailed
  /\ Val(fault).op = "unlink"
  /\ settled = "resolved"
  /\ Saved

(***************************************************************************)
(* C10.  A run moves through its stages strictly in the order Connecting,  *)
(* Extracting, Transforming, Loading, then Committed or Skipped, then      *)
(* Disconnected: no stage starts before the previous one succeeded, none   *)
(* is repeated or skipped, loading never starts unless extract and         *)
(* transform both succeeded, and from any stage the only other move is to  *)
(* Failed followed by Disconnected.                                        *)
(***************************************************************************)
StageOrder ==
  /\ Stage(pc') # Stage(pc) => <<Stage(pc), Stage(pc')>> \in StageMoves
  /\ (Stage(pc') = "Loading" /\ Stage(pc) # "Loading") =>
       /\ Stage(pc) = "Transforming"
       /\ ~IsSome(fault')
       /\ rawTasks' \in QueryAnswers(store)
       /\ dataset' = Some(transformTasks(rawTasks', now))
  /\ Stage(pc') \in {"Connecting", "Extracting", "Transforming"} => ~IsSome(fault')

C10_StageOrder == [][StageOrder]_vars

C10_Witness ==
  /\ RunEnded
  /\ settled = "resolved"
  /\ Saved
  /\ conn = "closed"


(***************************************************************************)
(* C11  Determinism of the fingerprint: for a fixed sequence of task       *)
(* records, the hash loadDataset computes over transformTasks(records)     *)
(* .tasks is the same whatever the clock shows when the run transforms; it *)
(* depends on the tasks only, not on extractedAt, version or statistics.   *)
(***************************************************************************)
C11_FingerprintDeterminism ==
  IsSome(currentHash) =>
    \A t \in Instants :
      Val(currentHash) = generateDataHash(transformTasks(rawTasks, t).tasks)

\* a fingerprint was computed for tasks whose statistics, extraction time
\* and version are other ones at another instant
C11_Witness ==
  /\ IsSome(currentHash)
  /\ \E t \in Instants :
       LET other == transformTasks(rawTasks, t).metadata
       IN /\ other.statistics # Val(dataset).metadata.statistics
          /\ other.extractedAt # Val(dataset).metadata.extractedAt
          /\ other.version # Val(dataset).metadata.version

(***************************************************************************)
(* C13  For every input of transformTasks the three priority buckets sum   *)
(* to the total: byPriority.high + byPriority.medium + byPriority.low =    *)
(* statistics.total, every task having a priority among Low, Medium and    *)
(* High after an absent or unrecognized one was defaulted to Medium.       *)
(***************************************************************************)
C13_PriorityBucketsSumToTotal ==
  IsSome(dataset) =>
    LET ds == Val(dataset)
        st == ds.metadata.statistics
    IN /\ st.byPriority.high + st.byPriority.medium + st.byPriority.low = st.total
       /\ \A i \in DOMAIN ds.tasks : ds.tasks[i].priority \in {"Low", "Medium", "High"}

(***************************************************************************)
(* C19  statistics.overdue is the number of transformed tasks whose        *)
(* dueDate is present and earlier than the evaluation time and whose       *)
(* completed is false; a task with a null dueDate or with completed true   *)
(* is never counted; statistics.completed and statistics.pending count the *)
(* tasks with completed true and false.                                    *)
(***************************************************************************)
C19_OverdueCount ==
  IsSome(dataset) =>
    LET ds == Val(dataset)
        st == ds.metadata.statistics
        at == ds.metadata.extractedAt.iso
        late == {i \in DOMAIN ds.tasks :
                   /\ ds.tasks[i].dueDate # None
                   /\ ds.tasks[i].dueDate[1].iso < at
                   /\ ds.tasks[i].completed = FALSE}
    IN /\ st.overdue = Cardinality(late)
       /\ st.completed = Cardinality({i \in DOMAIN ds.tasks : ds.tasks[i].completed = TRUE})
       /\ st.pending = Cardinality({i \in DOMAIN ds.tasks : ds.tasks[i].completed = FALSE})
       /\ st.completed + st.pending = st.total

\* a dataset with an overdue task next to a completed task whose due date
\* has passed as well
C19_Witness ==
  /\ IsSome(dataset)
  /\ Val(dataset).metadata.statistics.overdue = 1
  /\ \E i \in DOMAIN Val(dataset).tasks :
       LET x == Val(dataset).tasks[i]
       IN x.completed /\ IsSome(x.dueDate) /\ Val(x.dueDate).iso < now


(***************************************************************************)
(* C12  Identical task sets produce identical hashes across runs: two runs *)
(* that extract the same set of task records compute the same dataHash,    *)
(* in whatever order the store returns the records with equal createdAt.   *)
(***************************************************************************)
C12_SameSetSameHash ==
  (/\ IsSome(currentHash)
   /\ IsSome(prevRun.hash)
   /\ Range(rawTasks) = Range(prevRun.rawTasks))
    => currentHash = prevRun.hash

(***************************************************************************)
(* C14  In every dataset transformTasks produced and in every dataset      *)
(* written to latest.json or to a dataset-<version>.json file,             *)
(* metadata.count is the length of tasks and is statistics.total.          *)
(***************************************************************************)
CountIsLength(ds) ==
  /\ ds.metadata.count = Len(ds.tasks)
  /\ ds.metadata.count = ds.metadata.statistics.total

C14_CountIsLength ==
  /\ IsSome(dataset) => CountIsLength(Val(dataset))
  /\ IsSome(latestJson) => CountIsLength(Val(latestJson))
  /\ \A v \in DOMAIN backups : CountIsLength(backups[v])

\* a run wrote a dataset of two tasks, one of them completed, to latest.json
\* and to its backup
C14_Witness ==
  /\ RunEnded
  /\ Saved
  /\ Val(latestJson) = Val(dataset)
  /\ Val(dataset).metadata.version \in DOMAIN backups
  /\ backups[Val(dataset).metadata.version] = Val(dataset)
  /\ Val(dataset).metadata.count = 2
  /\ Val(dataset).metadata.statistics.completed = 1

(***************************************************************************)
(* C15  With no hash marker in the output directory loadDataset treats the *)
(* data as changed and saves, whatever the dataset, the empty one too: a   *)
(* first run over an empty collection yields tasks = [], count = 0, all    *)
(* statistics zero, and returns saved: true.                               *)
(***************************************************************************)
ZeroStatistics ==
  [total |-> 0, completed |-> 0, pending |-> 0,
   byPriority |-> [high |-> 0, medium |-> 0, low |-> 0], overdue |-> 0]

C15_NoMarkerSaves ==
  /\ pc = "Skipped" => IsSome(diskAtStart.latestHash)
  /\ (RunEnded /\ settled = "resolved" /\ ~IsSome(diskAtStart.latestHash))
       => /\ Saved
          /\ latestJson = dataset
          /\ latestHash = currentHash
          /\ (rawTasks = <<>>
                => /\ Val(dataset).tasks = <<>>
                   /\ Val(dataset).metadata.count = 0
                   /\ Val(dataset).metadata.statistics = ZeroStatistics
                   /\ Val(result).count = 0)

\* the first run ever, over an empty collection, has saved
C15_Witness ==
  /\ RunEnded
  /\ settled = "resolved"
  /\ diskAtStart = [latestJson |-> None, latestHash |-> None, backups |-> << >>]
  /\ store = {}
  /\ rawTasks = <<>>
  /\ Saved

(***************************************************************************)
(* C17  Each dataset-<version>.json is an immutable backup, one per        *)
(* detected change: once a backup file has been written, no later run      *)
(* changes its content; a later run may only delete it through retention.  *)
(***************************************************************************)
\* every file that stays keeps its content, and a file goes only by the
\* unlink of cleanupOldBackups
BackupsImmutable ==
  /\ \A v \in DOMAIN backups \cap DOMAIN backups' : backups'[v] = backups[v]
  /\ \A v \in DOMAIN backups \ DOMAIN backups' :
       pc = "Unlink" /\ v = Head(filesToDelete)

C17_BackupsImmutable == [][BackupsImmutable]_vars

\* a file changes only when a run saves under the version token of the
\* file, that is, when it transformed in the minute the file is named
\* after; the file then holds the dataset of that run
BackupsImmutableButSameMinute ==
  /\ \A v \in DOMAIN backups \cap DOMAIN backups' :
       backups'[v] # backups[v]
         => /\ pc = "WriteVersioned"
            /\ v = generateVersion(Val(dataset).metadata.extractedAt.iso)
            /\ backups'[v] = Val(dataset)
  /\ \A v \in DOMAIN backups \ DOMAIN backups' :
       pc = "Unlink" /\ v = Head(filesToDelete)
  /\ \A v \in DOMAIN backups' \ DOMAIN backups :
       /\ pc = "WriteVersioned"
       /\ v = generateVersion(Val(dataset).metadata.extractedAt.iso)
       /\ backups'[v] = Val(dataset)

C17_BackupsChangeOnlyInTheirMinute == [][BackupsImmutableButSameMinute]_vars

\* a run that started in a later minute than the backups it found has
\* saved and pruned: the backups it left in place are what they were
C17_Witness ==
  /\ RunEnded
  /\ Saved
  /\ diskAtStart.backups # << >>
  /\ ~(Val(dataset).metadata.version \in DOMAIN diskAtStart.backups)
  /\ DOMAIN diskAtStart.backups \ DOMAIN backups # {}
  /\ \A v \in DOMAIN diskAtStart.backups \cap DOMAIN backups :
       backups[v] = diskAtStart.backups[v]


(***************************************************************************)
(* C18  A record without a title does not abort the transform silently:    *)
(* for every extracted sequence with at least one record whose title is    *)
(* missing, transformTasks raises an error, the run fails with a nonzero   *)
(* outcome, no output file is written and the store connection is          *)
(* released.                                                               *)
(***************************************************************************)
HasUntitled(raw) == \E i \in DOMAIN raw : ~IsSome(raw[i].title)

C18_MissingTitleFailsRun ==
  /\ (HasUntitled(rawTasks) /\ pc # "Transforming")
       => /\ pc \in {"Failed", "Disconnected"}
          /\ IsSome(error)
          /\ Val(error).message = "Data transformation failed"
          /\ Val(error).cause = "TypeError"
          /\ ~IsSome(dataset)
          /\ ~IsSome(result)
          /\ touched = {}
          /\ Disk = diskAtStart
          /\ RunEnded => (settled = "rejected" /\ closeCalls = 1)
  /\ (pc = "Idle" /\ HasUntitled(prevRun.rawTasks))
       => /\ prevRun.failed
          /\ prevRun.settled = "rejected"
          /\ IsSome(exitCode)
          /\ Val(exitCode) # 0
          /\ Disk = diskAtStart

\* the process has exited after a run that extracted a record without a
\* title next to a record with one
C18_Witness ==
  /\ pc = "Idle"
  /\ HasUntitled(prevRun.rawTasks)
  /\ \E i \in DOMAIN prevRun.rawTasks : IsSome(prevRun.rawTasks[i].title)
  /\ exitCode = Some(1)


(***************************************************************************)
(* C20  Admin token authentication is required for triggering the ETL:     *)
(* for every request to POST /trigger-etl and to GET /status the route     *)
(* handler runs, and hence a repository_dispatch call is made, only when   *)
(* the x-admin-token header is present and equal to the configured         *)
(* ADMIN_TOKEN; every other request is answered 401 with success: false    *)
(* and makes no outbound call.                                             *)
(***************************************************************************)
\* the request in hand carries a header equal to the ADMIN_TOKEN that is set
TokenPresented ==
  /\ req # None
  /\ req[1].header # None
  /\ env.ADMIN_TOKEN # None
  /\ req[1].header[1] = env.ADMIN_TOKEN[1]

C20_AdminTokenRequired ==
  /\ apiPc \in Routes \cup {"Dispatching"} => TokenPresented
  /\ dispatches > 0 => TokenPresented
  /\ (apiPc = "Responded" /\ ~TokenPresented)
       => /\ res # None
          /\ res[1].status = 401
          /\ res[1].success = FALSE
          /\ dispatches = 0
  /\ (apiPc = "Responded" /\ res[1].status # 401) => TokenPresented

\* a request without the header was refused by a server that has no
\* ADMIN_TOKEN set
C20_Witness ==
  /\ apiPc = "Responded"
  /\ req = Some([route |-> "POST /trigger-etl", header |-> None])
  /\ env.ADMIN_TOKEN = None
  /\ env.GITHUB_TOKEN # None
  /\ env.GITHUB_REPO # None
  /\ res = Some(Json(401, FALSE, "Access denied. Admin token required."))
  /\ dispatches = 0


(***************************************************************************)
(* C16  When two runs execute concurrently against the same output         *)
(* directory, the read, compare and write of latest.hash is not atomic:    *)
(* there is an interleaving in which both runs read the marker before      *)
(* either writes it, so both runs, extracting the same changed data, pass  *)
(* the comparison, both write latest.json and a backup, and both return    *)
(* saved: true.                                                            *)
(***************************************************************************)
\* process a wrote latest.json, its backup and the marker
WroteAll(a) ==
  /\ FsOp("writeFile", "latest.json", <<>>) \in a.touched
  /\ FsOp("writeFile", "dataset", a.dataset[1].metadata.version) \in a.touched
  /\ FsOp("writeFile", "latest.hash", <<>>) \in a.touched

\* a and b extracted the same data and each read a marker that was not yet
\* the hash of that data: neither had written the marker when the other
\* read it
ReadBeforeEitherWrote(a, b) ==
  /\ a.rawTasks = b.rawTasks
  /\ a.currentHash # None
  /\ a.currentHash = b.currentHash
  /\ a.previousHash # a.currentHash
  /\ b.previousHash # b.currentHash

C16_RaceBothSave ==
  parked # None =>
    LET a == Context
        b == parked[1]
    IN (/\ ReadBeforeEitherWrote(a, b)
        /\ a.settled = "resolved"
        /\ b.settled = "resolved")
         => /\ a.result # None /\ a.result[1].saved
            /\ b.result # None /\ b.result[1].saved
            /\ WroteAll(a)
            /\ WroteAll(b)
            /\ latestHash = a.currentHash

\* both runs have ended, each has saved the same changed data
C16_Witness ==
  /\ parked # None
  /\ ReadBeforeEitherWrote(Context, parked[1])
  /\ pc = "Disconnected"
  /\ parked[1].pc = "Disconnected"
  /\ settled = "resolved"
  /\ parked[1].settled = "resolved"
  /\ result[1].saved
  /\ parked[1].result[1].saved
  /\ rawTasks # <<>>
  /\ diskAtStart.latestHash # None
  /\ diskAtStart.latestHash = parked[1].diskAtStart.latestHash


(***************************************************************************)
(* C21  GET /api/health answers with status 200 exactly when the database  *)
(* connection state is connected (readyState 1) and with status 503 in     *)
(* every other connection state; the body reports database 'connected' in  *)
(* the first case and 'disconnected' in the second.                        *)
(***************************************************************************)
HealthAnswer ==
  (apiPc = "GET /api/health" /\ apiPc' = "Responded")
    => /\ res' # None
       /\ res'[1].status = 200 <=> readyState = 1
       /\ res'[1].status = 503 <=> readyState # 1
       /\ res'[1].database = "connected" <=> readyState = 1
       /\ res'[1].database = "disconnected" <=> readyState # 1

C21_HealthStatus == [][HealthAnswer]_vars

\* the health check was answered 503 while the connection was being opened
C21_Witness ==
  /\ apiPc = "Responded"
  /\ req[1].route = "GET /api/health"
  /\ readyState = 2
  /\ res[1].status = 503
  /\ res[1].database = "disconnected"


(***************************************************************************)
(* C23  As stated: the dataset object that transformTasks returned has the *)
(* same content after loadDataset returned, on the save path and on the    *)
(* skip path.                                                              *)
(***************************************************************************)
C23_DatasetUnchangedByLoad ==
  pc \in {"Committed", "Skipped"}
    => dataset = Some(transformTasks(rawTasks, now))

(***************************************************************************)
(* C23  Amended: on the skip path the dataset is as transformTasks         *)
(* returned it; on the save path loadDataset has set metadata.dataHash to  *)
(* the hash of the tasks and metadata.changed to true, and the tasks and   *)
(* every other field of the metadata are as transformTasks returned them.  *)
(***************************************************************************)
C23_DatasetGainsOnlyHashFields ==
  LET made == transformTasks(rawTasks, now)
  IN /\ pc = "Skipped" => dataset = Some(made)
     /\ pc = "Committed"
          => /\ Val(dataset).tasks = made.tasks
             /\ DOMAIN Val(dataset) = DOMAIN made
             /\ DOMAIN Val(dataset).metadata = DOMAIN made.metadata
             /\ \A f \in DOMAIN made.metadata \ {"dataHash", "changed"} :
                  Val(dataset).metadata[f] = made.metadata[f]
             /\ Val(dataset).metadata.dataHash = Some(generateDataHash(made.tasks))
             /\ Val(dataset).metadata.changed = Some(TRUE)
             /\ made.metadata.dataHash = None
             /\ made.metadata.changed = None

\* a run saved a dataset of two tasks
C23_Witness ==
  /\ pc = "Committed"
  /\ Saved
  /\ Len(Val(dataset).tasks) = 2
  /\ Val(dataset).metadata.changed = Some(TRUE)

(***************************************************************************)
(* C24  Every authenticated POST /trigger-etl gets exactly one response:   *)
(* status 200 with success true if and only if the dispatch request to     *)
(* GitHub returned status 204; status 500 with success false when          *)
(* GITHUB_TOKEN or GITHUB_REPO is not configured, in which case no         *)
(* outbound call is made, and when the dispatch timed out, was rejected or *)
(* returned any status other than 204.                                     *)
(***************************************************************************)
TriggerAnswered ==
  /\ apiPc = "Responded"
  /\ req[1].route = "POST /trigger-etl"
  /\ TokenPresented
  /\ req[1].header # Some("")

TriggerAnswer ==
  TriggerAnswered
    => /\ res # None
       /\ dispatches <= 1
       /\ (res[1].status = 200 /\ res[1].success) <=> githubResponse = Some("204")
       /\ githubResponse # Some("204")
            => res[1].status = 500 /\ res[1].success = FALSE
       /\ (~TruthyWord(env.GITHUB_TOKEN) \/ ~TruthyWord(env.GITHUB_REPO))
            => /\ dispatches = 0
               /\ githubResponse = None
               /\ res[1].status = 500
       /\ (TruthyWord(env.GITHUB_TOKEN) /\ TruthyWord(env.GITHUB_REPO))
            => dispatches = 1 /\ githubResponse # None

\* a response, once sent, is not followed by another for the same request
OneAnswer == res # None => (res' = res \/ (res' = None /\ req' # None))

C24_OneResponse ==
  /\ []TriggerAnswer
  /\ [][OneAnswer]_vars
  /\ (apiPc = "POST /trigger-etl") ~> (apiPc = "Responded")

\* GitHub answered 200 and not 204 to the dispatch: the trigger failed
C24_Witness ==
  /\ TriggerAnswered
  /\ githubResponse = Some("200")
  /\ res[1].status = 500
  /\ dispatches = 1

(***************************************************************************)
(* C25  After every run that ends, saved, skipped or failed, runs not      *)
(* overlapping: if latest.hash exists then latest.json exists and the      *)
(* content of latest.hash equals metadata.dataHash of latest.json; and     *)
(* after a run that returned saved: true the returned hash equals          *)
(* latest.hash and latest.json equals the dataset-<version>.json that the  *)
(* run wrote.                                                              *)
(***************************************************************************)
C25_MarkerMatchesLatest ==
  RunEnded
    => /\ IsSome(latestHash)
            => /\ IsSome(latestJson)
               /\ Val(latestJson).metadata.dataHash = latestHash
       /\ Saved
            => /\ latestHash = Some(Val(result).hash)
               /\ Val(result).version \in DOMAIN backups
               /\ latestJson = Some(backups[Val(result).version])

(***************************************************************************)
(* C26  latest.hash is overwritten only after the writes of latest.json    *)
(* and of dataset-<version>.json of the same run have both succeeded; so   *)
(* if a run fails during load before the marker is written, the next run   *)
(* over the same store content does not skip but returns saved: true.      *)
(***************************************************************************)
MarkerWrittenLast ==
  latestHash' # latestHash
    => /\ latestHash' = currentHash
       /\ IsSome(dataset)
       /\ latestJson = dataset
       /\ Val(dataset).metadata.version \in DOMAIN backups
       /\ backups[Val(dataset).metadata.version] = Val(dataset)
       /\ {FsOp("writeFile", "latest.json", <<>>),
           FsOp("writeFile", "dataset", Val(dataset).metadata.version)}
            \subseteq touched

\* loadDataset returned in the run that follows, the store untouched, a run
\* that failed after it had computed its hash
RetrySaves ==
  (/\ IsSome(result)
   /\ prevRun.failed
   /\ IsSome(prevRun.hash)
   /\ prevRun.edits = editsAtExtract)
    => Saved

C26_FailedLoadIsRetried == [][MarkerWrittenLast]_vars /\ []RetrySaves

(***************************************************************************)
(* C27  After a run returned saved: true with version v, the file          *)
(* dataset-v.json exists in the output directory: the retention cleanup of *)
(* that run never deletes the backup that the run has just written.        *)
(***************************************************************************)
C27_NewBackupSurvivesCleanup ==
  (pc = "Committed" /\ Saved) => Val(result).version \in DOMAIN backups

(***************************************************************************)
(* C28  Every message passed to log during a run, from the first           *)
(* 'Starting ETL process' line to the final completed or failed line, has  *)
(* been appended to the log file of the day by the time the process exits. *)
(***************************************************************************)
C28_LogCompleteAtExit ==
  (pc = "Idle" /\ runs > 0)
    => /\ \A message \in Logged("Disconnected", prevRun.settled) :
            LogLine(runs, message) \in logFile
       /\ LogLine(runs, LoggedAtExit(Val(exitCode))) \in logFile

(***************************************************************************)
(* C29  An error raised while closing the store connection never changes   *)
(* the outcome of the run: when close() failed, runETL still resolves with *)
(* the result of loadDataset if no stage failed, and still rejects with    *)
(* the error of the stage if one did.                                      *)
(***************************************************************************)
\* the run has ended and close() raised: the connection is still open
CloseFailed == RunEnded /\ closeCalls = 1 /\ conn = "open"

C29_CloseErrorKeepsOutcome ==
  CloseFailed
    => /\ ~IsSome(error) => (settled = "resolved" /\ IsSome(result))
       /\ IsSome(error)
            => /\ settled = "rejected"
               /\ IsSome(fault) => Val(error).cause = Val(fault).cause

\* close() raised at the end of a run that had saved
C29_Witness ==
  /\ CloseFailed
  /\ settled = "resolved"
  /\ Saved

(***************************************************************************)
(* C22  Tasks are deleted with confirmation: onDelete is invoked for a     *)
(* task only after the delete button opened the confirmation dialog of     *)
(* that task (showConfirmDelete true) and the user clicked Delete in it;   *)
(* clicking Cancel closes the dialog without invoking onDelete, and after  *)
(* either choice the dialog is closed.                                     *)
(***************************************************************************)
DeleteIsConfirmed ==
  /\ onDeleteCalls' # onDeleteCalls
       => \E id \in FrontIds :
            /\ showConfirmDelete[id]
            /\ event' = Some([target |-> "Delete", id |-> id])
            /\ onDeleteCalls' = Append(onDeleteCalls, id)
            /\ ~showConfirmDelete'[id]
  /\ \A id \in FrontIds :
       event' = Some([target |-> "Cancel", id |-> id])
         => /\ onDeleteCalls' = onDeleteCalls
            /\ ~showConfirmDelete'[id]
  /\ \A id \in FrontIds :
       (~showConfirmDelete[id] /\ showConfirmDelete'[id])
         => event' = Some([target |-> "Delete task", id |-> id])

C22_DeleteIsConfirmed == [][DeleteIsConfirmed]_vars

\* the user confirmed the deletion of one task after cancelling that of
\* the other one
C22_Witness ==
  /\ onDeleteCalls = <<"t2">>
  /\ event = Some([target |-> "Cancel", id |-> "t1"])
  /\ \A id \in FrontIds : ~showConfirmDelete[id]

(***************************************************************************)
(* C30  Computing the filtered and sorted view in TaskList leaves the      *)
(* array of the tasks prop as it was, the same elements in the same order, *)
(* for every search term, filter and sort: a change of one of the three    *)
(* never changes the list that App holds in its state.                     *)
(***************************************************************************)
ViewLeavesPropAlone ==
  (/\ event' # None
   /\ event'[1].target \in {"setFilter", "setSort", "setSearchTerm"})
    => tasksState' = tasksState

C30_ViewLeavesPropAlone == [][ViewLeavesPropAlone]_vars

====
